---- MODULE Spec2Model ----
(***************************************************************************)
(* Membership state machine of auth-api (services/membership.py).          *)
(*                                                                         *)
(* State: the membership rows (one per user and org), the identity         *)
(* provider's group memberships, and a record of the last service call     *)
(* (its inputs, its outcome and the side effects it emitted).              *)
(*                                                                         *)
(* Spec      : calls run one at a time (each request is one step).         *)
(* SpecConc  : two requests run concurrently; the guard checks and the     *)
(*             persistence write of each are separate steps.               *)
(*                                                                         *)
(* Affiliation-detail reconciliation of auth-api (services/affiliation.py).*)
(*                                                                         *)
(* SpecRecon : one get_affiliation_details request: the gateway calls are  *)
(*             issued, each completes or fails, the responses are combined *)
(*             and sorted, and the request is repeated on the same         *)
(*             response objects.                                           *)
(*                                                                         *)
(* Affiliation authorization and the affiliation table of auth-api         *)
(* (services/affiliation.py).                                              *)
(*                                                                         *)
(* SpecAuthz    : one is_authorized call; the registry answers the lookup  *)
(*                of the parties of a firm, or fails.                      *)
(* SpecValidate : one validate_new_business_affiliation call on what the   *)
(*                name-request registry and the payment service answer.    *)
(* SpecAffil    : create_affiliation, create_new_business_affiliation and  *)
(*                delete_affiliation run one at a time on the entity and   *)
(*                affiliation tables; the registries answer each lookup a  *)
(*                call makes.                                              *)
(* SpecStale    : the calls of SpecAffil and fix_stale_affiliations, which *)
(*                re-points the affiliations of a name-request entity.     *)
(***************************************************************************)
EXTENDS Naturals, FiniteSets, Sequences, TLC

VARIABLES
    memberships,    \* [<<user, org>> -> [membership_type_code, status]]: the membership table
    membersJoin,    \* the statuses the Org.members relationship is joined on (fixed per run)
    kcGroups,       \* set of <<user, group>>: identity-provider group memberships
    last,           \* the last completed call: inputs, result, emitted side effects
    procs,          \* SpecConc only: the in-flight requests, one per process
    recon,          \* SpecRecon only: the affiliation-detail reconciliation in progress
    affil           \* SpecAuthz, SpecValidate: the call in progress; SpecAffil: the entity
                    \* and affiliation tables and the last call on them

vars == <<memberships, membersJoin, kcGroups, last, procs, recon, affil>>

----------------------------------------------------------------------------
(* Bounds of the model *)

\* number of users that are members of the regular org o1
TeamSize == 2

----------------------------------------------------------------------------
(* Vocabulary: auth_api.utils.roles, auth_api.utils.enums *)

ADMIN == "ADMIN"
COORDINATOR == "COORDINATOR"
USER == "USER"
STAFF == "STAFF"

MembershipRoles == {ADMIN, COORDINATOR, USER}

ACTIVE == "ACTIVE"
INACTIVE == "INACTIVE"
REJECTED == "REJECTED"
PENDING_APPROVAL == "PENDING_APPROVAL"

Statuses == {ACTIVE, INACTIVE, REJECTED, PENDING_APPROVAL}

BCEID == "BCEID"
BCROS == "BCROS"
BCSC == "BCSC"

GROUP_ACCOUNT_HOLDERS == "account_holders"

\* outcome of a call: "OK" or the error it raised
OK == "OK"
FORBIDDEN == "FORBIDDEN"
MAX_NUMBER_OF_STAFF_ORGS_LIMIT == "MAX_NUMBER_OF_STAFF_ORGS_LIMIT"
BCEID_USERS_CANT_BE_OWNERS == "BCEID_USERS_CANT_BE_OWNERS"
CHANGE_ROLE_FAILED_ONLY_OWNER == "CHANGE_ROLE_FAILED_ONLY_OWNER"

----------------------------------------------------------------------------
(* Python values that reach update_membership in updated_fields *)

\* Python None
None == [kind |-> "None"]

\* a MembershipType model object (what setattr on the relationship needs)
MembershipTypeObj(code) == [kind |-> "MembershipType", code |-> code]

\* a MembershipStatusCode model object
MembershipStatusObj(id) == [kind |-> "MembershipStatusCode", id |-> id]

\* a Python str
PyStr(s) == [kind |-> "str", value |-> s]

\* getattr(v, "code", None)
getattr_code(v) == IF "code" \in DOMAIN v THEN PyStr(v.code) ELSE None

\* Python truthiness of None / a model object
Truthy(v) == v # None

TypeArgs == {None} \cup {MembershipTypeObj(r) : r \in MembershipRoles}
StatusArgs == {None} \cup {MembershipStatusObj(s) : s \in Statuses}

\* updated_fields: an absent key is None here
FieldArgs == [membership_type : TypeArgs, membership_status : StatusArgs]

NoFields == [membership_type |-> None, membership_status |-> None]

\* len(updated_fields)
FieldsLen(f) ==
    (IF f.membership_type # None THEN 1 ELSE 0) + (IF f.membership_status # None THEN 1 ELSE 0)

----------------------------------------------------------------------------
(* Population *)

UserIds == <<"u1", "u2", "u3", "u4">>

\* the members of the regular org
TeamUsers == {UserIds[i] : i \in 1..TeamSize}

\* a caller whose token carries the staff role; it holds no membership row
StaffCaller == "staff"

Orgs == {"o1", "s1", "s2"}

org_type_code == [o \in Orgs |->
    CASE o = "o1" -> "PREMIUM"
      [] o = "s1" -> "SBC_STAFF"
      [] o = "s2" -> "CC_STAFF"]

login_source == [u \in {UserIds[i] : i \in 1..Len(UserIds)} |->
    CASE u = "u2" -> BCEID
      [] u = "u3" -> BCROS
      [] OTHER -> BCSC]

\* whether a contact link with an email is on file for the user
has_contact_email == [u \in {UserIds[i] : i \in 1..Len(UserIds)} |-> u # "u2"]

org_type_to_group_mapping ==
    [t \in {"MAXIMUS_STAFF", "CC_STAFF", "SBC_STAFF"} |->
        CASE t = "MAXIMUS_STAFF" -> "maximus_staff"
          [] t = "CC_STAFF" -> "contact_centre_staff"
          [] t = "SBC_STAFF" -> "sbc_staff"]

StaffOrgTypes == DOMAIN org_type_to_group_mapping

\* The sets of membership rows a run starts with: a team in the regular org,
\* one user in two staff-tier orgs, one (BCROS) user in the regular and a staff-tier org.
Scenarios ==
    { {<<u, "o1">> : u \in TeamUsers},
      {<<"u1", "s1">>, <<"u1", "s2">>},
      {<<"u3", "o1">>, <<"u3", "s1">>} }

MembershipRows == [membership_type_code : MembershipRoles, status : Statuses]

----------------------------------------------------------------------------
(* Queries of the model layer *)

UserOf(k) == k[1]
OrgOf(k) == k[2]

\* org.members: the relationship is declared in the Org model; it is either every
\* membership row of the org or the rows whose status is in the join condition
OrgMembers(ms, org) ==
    {k \in DOMAIN ms : OrgOf(k) = org /\ ms[k].status \in membersJoin}

\* MembershipModel.find_memberships_by_user_id_and_status
find_memberships_by_user_id_and_status(ms, user, status) ==
    {k \in DOMAIN ms : UserOf(k) = user /\ ms[k].status = status}

\* OrgModel.find_by_org_ids_and_org_types
find_by_org_ids_and_org_types(org_ids, org_types) ==
    {o \in org_ids : org_type_code[o] \in org_types}

\* MembershipModel.find_orgs_for_user: the orgs in which the user is ACTIVE
find_orgs_for_user(ms, user) ==
    {OrgOf(k) : k \in find_memberships_by_user_id_and_status(ms, user, ACTIVE)}

\* the role check_auth resolves for the caller on the org
CallerRole(ms, caller, org) ==
    IF caller = StaffCaller THEN STAFF
    ELSE IF <<caller, org>> \in DOMAIN ms /\ ms[<<caller, org>>].status = ACTIVE
         THEN ms[<<caller, org>>].membership_type_code
         ELSE "None"

\* check_auth(org_id=..., one_of_roles=...): passes iff the caller's role is one of the roles
check_auth(ms, caller, org, one_of_roles) ==
    CallerRole(ms, caller, org) \in one_of_roles

\* Membership.get_owner_count
get_owner_count(ms, org) ==
    Cardinality({k \in OrgMembers(ms, org) : ms[k].membership_type_code = ADMIN})

----------------------------------------------------------------------------
(* Membership.find_membership_by_id *)

\* the guard of find_membership_by_id: the caller's own membership, or check_auth
find_membership_by_id(ms, caller, k) ==
    UserOf(k) = caller \/ check_auth(ms, caller, OrgOf(k), {COORDINATOR, ADMIN, STAFF})

----------------------------------------------------------------------------
(* Membership.update_membership: the guards *)

\* variant: the limit is reached only with more than one ACTIVE staff-tier org
_check_if_add_user_has_active_staff_org_gt1(ms, updated_membership_status, user_id) ==
    LET active == find_memberships_by_user_id_and_status(ms, user_id, ACTIVE)
        staff_orgs == find_by_org_ids_and_org_types({OrgOf(k) : k \in active}, StaffOrgTypes)
    IN  /\ Truthy(updated_membership_status)
        /\ updated_membership_status.id = ACTIVE
        /\ Cardinality(staff_orgs) > 1

\* variant: the limit applies whatever status is requested
_check_if_add_user_has_active_staff_org_any_status(ms, updated_membership_status, user_id) ==
    LET active == find_memberships_by_user_id_and_status(ms, user_id, ACTIVE)
        staff_orgs == find_by_org_ids_and_org_types({OrgOf(k) : k \in active}, StaffOrgTypes)
    IN  Cardinality(staff_orgs) > 0

\* line 224: TRUE iff check_auth rejects the caller
caller_auth_guard_own_exempt(ms, caller, k) ==
    UserOf(k) # caller /\ ~check_auth(ms, caller, OrgOf(k), {COORDINATOR, ADMIN, STAFF})

caller_auth_guard(ms, caller, k) ==
    ~check_auth(ms, caller, OrgOf(k), {COORDINATOR, ADMIN, STAFF})

\* _check_if_add_user_has_active_staff_org: TRUE iff it raises
_check_if_add_user_has_active_staff_org(ms, updated_membership_status, user_id) ==
    LET active == find_memberships_by_user_id_and_status(ms, user_id, ACTIVE)
        staff_orgs == find_by_org_ids_and_org_types({OrgOf(k) : k \in active}, StaffOrgTypes)
    IN  /\ Truthy(updated_membership_status)
        /\ updated_membership_status.id = ACTIVE
        /\ Cardinality(staff_orgs) > 0

\* variant: the requested type is compared with the role name, as line 237 does
bceid_owner_guard_str_compare(k, f) ==
    LET is_bceid_user == login_source[UserOf(k)] = BCEID
    IN  is_bceid_user /\ f.membership_type = PyStr(ADMIN)

\* lines 232-234: TRUE iff BCEID_USERS_CANT_BE_OWNERS is raised
bceid_owner_guard(k, f) ==
    LET is_bceid_user == login_source[UserOf(k)] = BCEID
    IN  is_bceid_user /\ getattr_code(f.membership_type) = PyStr(ADMIN)

\* lines 236-238: TRUE iff the second check_auth is reached and fails
coordinator_promotion_guard(ms, caller, k, f) ==
    /\ ms[k].membership_type_code = COORDINATOR
    /\ f.membership_type = PyStr(ADMIN)
    /\ ~check_auth(ms, caller, OrgOf(k), {ADMIN, STAFF})

\* lines 243-247: the request deactivates a membership whose role is ADMIN
admin_getting_removed(ms, k, f) ==
    /\ Truthy(f.membership_status)
    /\ f.membership_status.id = INACTIVE
    /\ ms[k].membership_type_code = ADMIN

\* variant: the removal is refused while the org has up to two owners
owner_removal_guard_off_by_one(ms, k, f) ==
    admin_getting_removed(ms, k, f) /\ get_owner_count(ms, OrgOf(k)) <= 2

\* lines 243-250: TRUE iff CHANGE_ROLE_FAILED_ONLY_OWNER is raised for a removal
owner_removal_guard(ms, k, f) ==
    admin_getting_removed(ms, k, f) /\ get_owner_count(ms, OrgOf(k)) = 1

\* lines 253-258: TRUE iff CHANGE_ROLE_FAILED_ONLY_OWNER is raised for a downgrade
owner_downgrade_guard(ms, k, f) ==
    /\ ms[k].membership_type_code = ADMIN
    /\ f.membership_type # PyStr(ADMIN)
    /\ get_owner_count(ms, OrgOf(k)) = 1

\* variant: the sole-owner checks come before the BCEID-owner check
update_membership_guards_owner_first(ms, caller, k, f) ==
    IF caller_auth_guard(ms, caller, k) THEN FORBIDDEN
    ELSE IF _check_if_add_user_has_active_staff_org(ms, f.membership_status, UserOf(k))
         THEN MAX_NUMBER_OF_STAFF_ORGS_LIMIT
    ELSE IF owner_removal_guard(ms, k, f) THEN CHANGE_ROLE_FAILED_ONLY_OWNER
    ELSE IF owner_downgrade_guard(ms, k, f) THEN CHANGE_ROLE_FAILED_ONLY_OWNER
    ELSE IF bceid_owner_guard(k, f) THEN BCEID_USERS_CANT_BE_OWNERS
    ELSE IF coordinator_promotion_guard(ms, caller, k, f) THEN FORBIDDEN
    ELSE OK

\* the guards of update_membership in the order of the code: the first error raised, or OK
update_membership_guards(ms, caller, k, f) ==
    IF caller_auth_guard(ms, caller, k) THEN FORBIDDEN
    ELSE IF _check_if_add_user_has_active_staff_org(ms, f.membership_status, UserOf(k))
         THEN MAX_NUMBER_OF_STAFF_ORGS_LIMIT
    ELSE IF bceid_owner_guard(k, f) THEN BCEID_USERS_CANT_BE_OWNERS
    ELSE IF coordinator_promotion_guard(ms, caller, k, f) THEN FORBIDDEN
    ELSE IF owner_removal_guard(ms, k, f) THEN CHANGE_ROLE_FAILED_ONLY_OWNER
    ELSE IF owner_downgrade_guard(ms, k, f) THEN CHANGE_ROLE_FAILED_ONLY_OWNER
    ELSE OK

----------------------------------------------------------------------------
(* Membership.update_membership: the write and the side effects *)

\* lines 260-263: setattr of every field that is not None, then save
apply_updated_fields(ms, k, f) ==
    [ms EXCEPT ![k] =
        [membership_type_code |->
            IF f.membership_type # None THEN f.membership_type.code ELSE @.membership_type_code,
         status |->
            IF f.membership_status # None THEN f.membership_status.id ELSE @.status]]

SeqIf(cond, x) == IF cond THEN <<x>> ELSE <<>>

\* lines 265-282: the activity-log event and the team-member-removed event
activity_events(f) ==
    LET s == f.membership_status
        emits == Truthy(s) /\ s.id \in {INACTIVE, ACTIVE}
    IN  SeqIf(emits /\ s.id = ACTIVE, "publish_activity:APPROVE_TEAM_MEMBER")
        \o SeqIf(emits /\ s.id # ACTIVE, "publish_activity:REMOVE_TEAM_MEMBER")
        \o SeqIf(emits /\ s.id # ACTIVE, "publish_team_member_event:TEAM_MEMBER_REMOVED")

\* add_or_remove_group_for_staff: the staff group of the org, "" when the org has none
staff_group_of(org) ==
    IF org_type_code[org] \in DOMAIN org_type_to_group_mapping
    THEN org_type_to_group_mapping[org_type_code[org]] ELSE ""

\* add_or_remove_group_for_staff: the calls made for the (saved) membership k
staff_group_calls(ms, kc, k) ==
    LET mapping_group == staff_group_of(OrgOf(k))
        is_in_group == <<UserOf(k), mapping_group>> \in kc
    IN  IF mapping_group = "" THEN <<>>
        ELSE SeqIf(ms[k].status = ACTIVE /\ ~is_in_group, "add_user_to_group")
             \o SeqIf(ms[k].status = INACTIVE /\ is_in_group, "remove_user_from_group")

\* _add_or_remove_group: the identity-provider calls made for the (saved) membership k
group_calls(ms, kc, k) ==
    SeqIf(ms[k].status = ACTIVE, "join_account_holders_group")
    \o SeqIf(ms[k].status = INACTIVE /\ find_orgs_for_user(ms, UserOf(k)) = {},
             "remove_from_account_holders_group")
    \o staff_group_calls(ms, kc, k)
    \o <<"update_users_products_keycloak_groups">>

InSeq(x, s) == \E i \in 1..Len(s) : s[i] = x

\* the identity provider's groups after the calls of _add_or_remove_group
_add_or_remove_group(ms, kc, k) ==
    LET calls == group_calls(ms, kc, k)
        u == UserOf(k)
        g == staff_group_of(OrgOf(k))
        kc1 == IF InSeq("join_account_holders_group", calls)
               THEN kc \cup {<<u, GROUP_ACCOUNT_HOLDERS>>}
               ELSE IF InSeq("remove_from_account_holders_group", calls)
               THEN kc \ {<<u, GROUP_ACCOUNT_HOLDERS>>}
               ELSE kc
    IN  IF InSeq("add_user_to_group", calls) THEN kc1 \cup {<<u, g>>}
        ELSE IF InSeq("remove_user_from_group", calls) THEN kc1 \ {<<u, g>>}
        ELSE kc1

\* lines 286-297: the mails sent when staff modifies a membership
staff_mails(before, caller, k, f) ==
    LET is_staff == caller = StaffCaller
        is_bcros_user == login_source[UserOf(k)] = BCROS
    IN  SeqIf(is_staff /\ ~is_bcros_user /\ FieldsLen(f) # 0, "publish_to_mailer:TEAM_MODIFIED")
        \o SeqIf(is_staff /\ ~is_bcros_user /\ admin_getting_removed(before, k, f)
                    /\ has_contact_email[UserOf(k)],
                 "publish_to_mailer:ADMIN_REMOVED")

\* everything update_membership does after its guards passed, in the order of the code
update_membership_effects(ms, kc, caller, k, f) ==
    LET saved == apply_updated_fields(ms, k, f)
    IN  <<"save">> \o activity_events(f) \o group_calls(saved, kc, k)
        \o staff_mails(ms, caller, k, f)

----------------------------------------------------------------------------
(* Membership.deactivate_membership *)

\* one_of_roles=(ADMIN) is the str "ADMIN": `role in "ADMIN"` is a substring test,
\* which of the roles only ADMIN passes
RolesInStr_ADMIN == {ADMIN}

\* lines 308-314: the first failing check, or OK
deactivate_membership_guards(ms, caller, k) ==
    IF UserOf(k) # caller /\ ~check_auth(ms, caller, OrgOf(k), {COORDINATOR, ADMIN}) THEN FORBIDDEN
    ELSE IF ms[k].membership_type_code = ADMIN
            /\ ~check_auth(ms, caller, OrgOf(k), RolesInStr_ADMIN) THEN FORBIDDEN
    ELSE OK

\* line 316: membership_status = INACTIVE
apply_deactivate(ms, k) == [ms EXCEPT ![k].status = INACTIVE]

\* lines 318-331: what deactivate_membership does after its checks, in the order of the code
deactivate_membership_effects(ms, kc, k) ==
    <<"save">> \o group_calls(apply_deactivate(ms, k), kc, k)
    \o <<"publish_activity:REMOVE_TEAM_MEMBER", "publish_team_member_event:TEAM_MEMBER_REMOVED">>

----------------------------------------------------------------------------
(* The two methods as a whole: guards, then the write, then the side effects *)

Outcome(result, ms, kc, effects) ==
    [result |-> result, memberships |-> ms, kcGroups |-> kc, effects |-> effects]

\* variant: the sole-owner checks run after the save
update_membership_outcome_save_first(ms, kc, caller, k, f) ==
    LET result == update_membership_guards(ms, caller, k, f)
        saved == apply_updated_fields(ms, k, f)
    IN  IF result = CHANGE_ROLE_FAILED_ONLY_OWNER THEN Outcome(result, saved, kc, <<"save">>)
        ELSE IF result # OK THEN Outcome(result, ms, kc, <<>>)
        ELSE Outcome(OK, saved, _add_or_remove_group(saved, kc, k),
                     update_membership_effects(ms, kc, caller, k, f))

\* Membership.update_membership: a raised error leaves everything as it was
update_membership_outcome(ms, kc, caller, k, f) ==
    LET result == update_membership_guards(ms, caller, k, f)
        saved == apply_updated_fields(ms, k, f)
    IN  IF result # OK THEN Outcome(result, ms, kc, <<>>)
        ELSE Outcome(OK, saved, _add_or_remove_group(saved, kc, k),
                     update_membership_effects(ms, kc, caller, k, f))

\* Membership.deactivate_membership
deactivate_membership_outcome(ms, kc, caller, k) ==
    LET result == deactivate_membership_guards(ms, caller, k)
        saved == apply_deactivate(ms, k)
    IN  IF result # OK THEN Outcome(result, ms, kc, <<>>)
        ELSE Outcome(OK, saved, _add_or_remove_group(saved, kc, k),
                     deactivate_membership_effects(ms, kc, k))

----------------------------------------------------------------------------
(* The requests, one call per step *)

Callers == {UserOf(k) : k \in DOMAIN memberships} \cup {StaffCaller}

CallRecord(op, caller, k, f, before, result, effects) ==
    [op |-> op, caller |-> caller, user |-> UserOf(k), org |-> OrgOf(k), fields |-> f,
     before |-> before, result |-> result, effects |-> effects]

NoCall ==
    [op |-> "none", caller |-> "", user |-> "", org |-> "", fields |-> NoFields,
     before |-> [membership_type_code |-> "", status |-> ""], result |-> "", effects |-> <<>>]

\* a request to update membership k: find_membership_by_id, then update_membership
update_membership(caller, k, f) ==
    LET out == IF ~find_membership_by_id(memberships, caller, k)
               THEN Outcome(FORBIDDEN, memberships, kcGroups, <<>>)
               ELSE update_membership_outcome(memberships, kcGroups, caller, k, f)
    IN  /\ last = NoCall
        /\ memberships' = out.memberships
        /\ kcGroups' = out.kcGroups
        /\ last' = CallRecord("update_membership", caller, k, f, memberships[k],
                              out.result, out.effects)
        /\ UNCHANGED <<membersJoin, procs, recon, affil>>

\* a request to deactivate membership k: find_membership_by_id, then deactivate_membership
deactivate_membership(caller, k) ==
    LET out == IF ~find_membership_by_id(memberships, caller, k)
               THEN Outcome(FORBIDDEN, memberships, kcGroups, <<>>)
               ELSE deactivate_membership_outcome(memberships, kcGroups, caller, k)
    IN  /\ last = NoCall
        /\ memberships' = out.memberships
        /\ kcGroups' = out.kcGroups
        /\ last' = CallRecord("deactivate_membership", caller, k, NoFields, memberships[k],
                              out.result, out.effects)
        /\ UNCHANGED <<membersJoin, procs, recon, affil>>

\* the call returns (`return self`, or the raised error reaches the caller): the
\* record of the call is consumed and the next request can be served
return_to_caller ==
    /\ last # NoCall
    /\ last' = NoCall
    /\ UNCHANGED <<memberships, membersJoin, kcGroups, procs, recon, affil>>

----------------------------------------------------------------------------
(* Initial states *)

\* no user is ACTIVE in more than one staff-tier org
StaffUnique(ms) ==
    \A k1, k2 \in DOMAIN ms :
        (/\ UserOf(k1) = UserOf(k2) /\ k1 # k2
         /\ ms[k1].status = ACTIVE /\ ms[k2].status = ACTIVE
         /\ org_type_code[OrgOf(k1)] \in StaffOrgTypes)
        => org_type_code[OrgOf(k2)] \notin StaffOrgTypes

\* the groups the identity provider holds when they match the memberships
GroupsOf(ms) ==
    {<<UserOf(k), GROUP_ACCOUNT_HOLDERS>> : k \in {j \in DOMAIN ms : ms[j].status = ACTIVE}}
    \cup {<<UserOf(k), staff_group_of(OrgOf(k))>> :
            k \in {j \in DOMAIN ms : ms[j].status = ACTIVE /\ staff_group_of(OrgOf(j)) # ""}}

NoProcs == <<>>

\* no reconciliation is in progress
NoRecon == [pc |-> "none"]

\* the affiliation tables are not part of the run
NoAffil == [pc |-> "none"]

Init ==
    /\ \E rows \in Scenarios : memberships \in [rows -> MembershipRows]
    /\ StaffUnique(memberships)
    /\ membersJoin \in {Statuses, {ACTIVE, PENDING_APPROVAL}}
    /\ kcGroups = GroupsOf(memberships)
    /\ last = NoCall
    /\ procs = NoProcs
    /\ recon = NoRecon
    /\ affil = NoAffil

Next ==
    \/ \E caller \in Callers, k \in DOMAIN memberships, f \in FieldArgs :
            update_membership(caller, k, f)
    \/ \E caller \in Callers, k \in DOMAIN memberships :
            deactivate_membership(caller, k)
    \/ return_to_caller

Spec == Init /\ [][Next]_vars

----------------------------------------------------------------------------
(* Concurrent requests: the guards of a call read the table in one step, its  *)
(* save and side effects happen in a later step; nothing in the service locks *)
(* the rows between the two.                                                  *)

Procs == {"p1", "p2"}

IdleProc ==
    [pc |-> "idle", op |-> "none", caller |-> "", user |-> "", org |-> "", fields |-> NoFields,
     result |-> "", overlapped |-> FALSE]

\* process p runs the guards of update_membership (lines 224-258)
conc_update_membership_check(p, caller, k, f) ==
    LET result == IF ~find_membership_by_id(memberships, caller, k) THEN FORBIDDEN
                  ELSE update_membership_guards(memberships, caller, k, f)
    IN  /\ procs[p].pc = "idle"
        /\ procs' = [procs EXCEPT ![p] =
                        [pc |-> IF result = OK THEN "write" ELSE "done",
                         op |-> "update_membership", caller |-> caller,
                         user |-> UserOf(k), org |-> OrgOf(k), fields |-> f,
                         result |-> result, overlapped |-> FALSE]]
        /\ UNCHANGED <<memberships, membersJoin, kcGroups, last, recon, affil>>

\* process p runs the checks of deactivate_membership (lines 308-314)
conc_deactivate_membership_check(p, caller, k) ==
    LET result == IF ~find_membership_by_id(memberships, caller, k) THEN FORBIDDEN
                  ELSE deactivate_membership_guards(memberships, caller, k)
    IN  /\ procs[p].pc = "idle"
        /\ procs' = [procs EXCEPT ![p] =
                        [pc |-> IF result = OK THEN "write" ELSE "done",
                         op |-> "deactivate_membership", caller |-> caller,
                         user |-> UserOf(k), org |-> OrgOf(k), fields |-> NoFields,
                         result |-> result, overlapped |-> FALSE]]
        /\ UNCHANGED <<memberships, membersJoin, kcGroups, last, recon, affil>>

\* process p saves its change (lines 260-263 or 316-318) and syncs the groups;
\* overlapped records that another call had passed its guards and not yet saved
conc_save(p) ==
    LET k == <<procs[p].user, procs[p].org>>
        saved == IF procs[p].op = "update_membership"
                 THEN apply_updated_fields(memberships, k, procs[p].fields)
                 ELSE apply_deactivate(memberships, k)
    IN  /\ procs[p].pc = "write"
        /\ memberships' = saved
        /\ kcGroups' = _add_or_remove_group(saved, kcGroups, k)
        /\ procs' = [procs EXCEPT ![p].pc = "done",
                                  ![p].overlapped = \E q \in Procs \ {p} : procs[q].pc = "write"]
        /\ UNCHANGED <<membersJoin, last, recon, affil>>

\* an org with two ACTIVE owners
InitConc ==
    /\ memberships = [k \in {<<"u1", "o1">>, <<"u2", "o1">>} |->
                        [membership_type_code |-> ADMIN, status |-> ACTIVE]]
    /\ membersJoin \in {Statuses, {ACTIVE, PENDING_APPROVAL}}
    /\ kcGroups = GroupsOf(memberships)
    /\ last = NoCall
    /\ procs = [p \in Procs |-> IdleProc]
    /\ recon = NoRecon
    /\ affil = NoAffil

NextConc ==
    \/ \E p \in Procs, caller \in Callers, k \in DOMAIN memberships, f \in FieldArgs :
            conc_update_membership_check(p, caller, k, f)
    \/ \E p \in Procs, caller \in Callers, k \in DOMAIN memberships :
            conc_deactivate_membership_check(p, caller, k)
    \/ \E p \in Procs : conc_save(p)

SpecConc == InitConc /\ [][NextConc]_vars

----------------------------------------------------------------------------
(* Affiliation-detail reconciliation: services/affiliation.py               *)
(*                                                                          *)
(* A JSON object (Python dict) is a record whose fields are the keys that   *)
(* are present; a JSON array (Python list) is a sequence.  The records of   *)
(* the gateway responses are objects: linking changes them in place, so the *)
(* responses are kept as a heap and a record is referred to by its place    *)
(* <<response, key, position>> in it.                                       *)

\* most name-request payloads in one response
MaxNameRequests == 2

\* most draft entities in one response
MaxDrafts == 2

\* most business entities in one response
MaxBusinesses == 1

\* CorpType.NR, CorpType.ATMP, CorpType.TMP
CorpType_NR == "NR"
CorpType_ATMP == "ATMP"
CorpType_TMP == "TMP"

\* NRStatus.CONSUMED, NRStatus.APPROVED
NRStatus_CONSUMED == "CONSUMED"
NRStatus_APPROVED == "APPROVED"

\* NRActionCodes.AMALGAMATE, NRActionCodes.NEW_BUSINESS
NRActionCodes_AMALGAMATE == "AML"
NRActionCodes_NEW_BUSINESS == "NEW"

NAMEX_AFFILIATION_DETAILS_URL == "NAMEX_AFFILIATION_DETAILS_URL"
LEAR_AFFILIATION_DETAILS_URL == "LEAR_AFFILIATION_DETAILS_URL"

\* the errors a request can end with
ServiceUnavailableException == "ServiceUnavailableException"
ValueError == "ValueError"

\* datetime.datetime.min: earlier than every creation timestamp (these are >= 1)
datetime_min == 0

----------------------------------------------------------------------------
(* Python containers *)

\* d[k] = v on a dict
setitem(d, k, v) == [j \in DOMAIN d \cup {k} |-> IF j = k THEN v ELSE d[j]]

\* a JSON array that is itself a response body
PyList(items) == [kind |-> "list", items |-> items]

\* isinstance(data, dict), isinstance(data, list)
isdict(data) == data.kind = "dict"
islist(data) == data.kind = "list"

\* a dict that keeps insertion order is a sequence of [key, value] entries
dict_keys(m) == {m[i].key : i \in DOMAIN m}
dict_getitem(m, k) == m[CHOOSE i \in DOMAIN m : m[i].key = k].value
dict_setitem(m, k, v) ==
    IF k \in dict_keys(m)
    THEN [i \in DOMAIN m |-> IF m[i].key = k THEN [key |-> k, value |-> v] ELSE m[i]]
    ELSE Append(m, [key |-> k, value |-> v])
dict_delitem(m, k) == SelectSeq(m, LAMBDA e : e.key # k)
dict_values(m) == [i \in DOMAIN m |-> m[i].value]

\* list.remove at a known position
list_pop(l, i) == SubSeq(l, 1, i - 1) \o SubSeq(l, i + 1, Len(l))

SeqsUpTo(S, n) == UNION {[1..m -> S] : m \in 0..n}

----------------------------------------------------------------------------
(* The requests and the gateway responses that are covered *)

NameRequestNumbers == {"NR1", "NR2"}
DraftIdentifiers == {"T1", "T2"}
BusinessIdentifiers == {"BC1"}

\* identifier.startswith("NR")
startswith_NR(identifier) == identifier \in NameRequestNumbers

\* name-request payloads: NR1 approved or consumed, NR2 an amalgamation, one without nrNum;
\* every payload carries stateCd and request_action_cd, every draft and business an identifier
NameRequestPayloads ==
    {[nrNum |-> "NR1", stateCd |-> s, request_action_cd |-> NRActionCodes_NEW_BUSINESS] :
        s \in {NRStatus_APPROVED, NRStatus_CONSUMED}}
    \cup {[nrNum |-> "NR2", stateCd |-> NRStatus_APPROVED,
           request_action_cd |-> NRActionCodes_AMALGAMATE]}
    \cup {[stateCd |-> NRStatus_APPROVED, request_action_cd |-> NRActionCodes_NEW_BUSINESS]}

\* draft entities: nrNumber absent, empty or a name-request number
DraftRecords ==
    {[identifier |-> i, draftType |-> CorpType_TMP] : i \in DraftIdentifiers}
    \cup {[identifier |-> i, draftType |-> CorpType_TMP, nrNumber |-> n] :
            i \in DraftIdentifiers, n \in {""} \cup NameRequestNumbers}

\* business entities: nrNumber absent or a name-request number
BusinessRecords ==
    {[identifier |-> i] : i \in BusinessIdentifiers}
    \cup {[identifier |-> i, nrNumber |-> n] : i \in BusinessIdentifiers, n \in NameRequestNumbers}

\* what the name-request source answers: a bare array, or an object with hasMore
NamexResponses ==
    {PyList(reqs) : reqs \in SeqsUpTo(NameRequestPayloads, MaxNameRequests)}
    \cup {[kind |-> "dict", requests |-> reqs, hasMore |-> TRUE] :
            reqs \in SeqsUpTo(NameRequestPayloads, MaxNameRequests)}

\* what the business source answers: an object with the two entity arrays
LearResponses ==
    {[kind |-> "dict", draftEntities |-> d, businessEntities |-> b] :
        d \in SeqsUpTo(DraftRecords, MaxDrafts), b \in SeqsUpTo(BusinessRecords, MaxBusinesses)}
    \cup {[kind |-> "dict", draftEntities |-> d, businessEntities |-> b, hasMore |-> FALSE] :
        d \in SeqsUpTo(DraftRecords, MaxDrafts), b \in SeqsUpTo(BusinessRecords, MaxBusinesses)}

ResponsesOf(url) ==
    IF url = NAMEX_AFFILIATION_DETAILS_URL THEN NamexResponses ELSE LearResponses

AffiliationBase(identifier, created) == [identifier |-> identifier, created |-> created]

\* the affiliations of the org: one per entity, newest first, oldest first, with ties
AffiliationBaseLists ==
    { <<AffiliationBase("NR1", 3), AffiliationBase("T1", 2), AffiliationBase("BC1", 1)>>,
      <<AffiliationBase("BC1", 2), AffiliationBase("T2", 2), AffiliationBase("T1", 3),
        AffiliationBase("NR2", 1), AffiliationBase("NR1", 2)>>,
      <<AffiliationBase("T1", 1), AffiliationBase("BC1", 2)>> }

\* AffiliationSearchDetails: no filter, or a status filter; the caller asks for page 2
SearchArgs ==
    {[status |-> s, name |-> "", type |-> "", identifier |-> "", page |-> 2] : s \in {"", "ACTIVE"}}

----------------------------------------------------------------------------
(* Affiliation._affiliation_details_url, the calls of get_affiliation_details *)

_affiliation_details_url(identifier) ==
    IF startswith_NR(identifier) THEN NAMEX_AFFILIATION_DETAILS_URL
    ELSE LEAR_AFFILIATION_DETAILS_URL

\* lines 477-478: without a filter the page is forced to 1
force_single_page(search_details) ==
    IF search_details.status = "" /\ search_details.name = ""
       /\ search_details.type = "" /\ search_details.identifier = ""
    THEN [search_details EXCEPT !.page = 1]
    ELSE search_details

\* lines 480-492: one call per url, in the order the urls first occur in the bases
RECURSIVE url_identifiers(_, _, _)
url_identifiers(affiliation_bases, i, acc) ==
    IF i > Len(affiliation_bases) THEN acc
    ELSE LET identifier == affiliation_bases[i].identifier
             url == _affiliation_details_url(identifier)
             old == IF url \in dict_keys(acc) THEN dict_getitem(acc, url) ELSE <<>>
         IN  url_identifiers(affiliation_bases, i + 1,
                             dict_setitem(acc, url, Append(old, identifier)))

call_info(affiliation_bases, search_details) ==
    LET grouped == url_identifiers(affiliation_bases, 1, <<>>)
    IN  [i \in DOMAIN grouped |->
            [url |-> grouped[i].key,
             payload |-> [identifiers |-> grouped[i].value, page |-> search_details.page,
                          status |-> search_details.status]]]

----------------------------------------------------------------------------
(* Affiliation._extract_name_requests, Affiliation._group_details *)

_extract_name_requests(data) ==
    IF islist(data) THEN [hasMore |-> FALSE, requests |-> data.items]
    ELSE IF "requests" \in DOMAIN data
         THEN [hasMore |-> IF "hasMore" \in DOMAIN data THEN data.hasMore ELSE FALSE,
               requests |-> data.requests]
         ELSE [hasMore |-> FALSE, requests |-> <<>>]

\* lines 569-574: the name requests of one response go into the mapping, keyed by nrNum
RECURSIVE group_name_requests(_, _, _)
group_name_requests(name_requests, requests, j) ==
    IF j > Len(requests) THEN name_requests
    ELSE LET name_request == requests[j]
         IN  group_name_requests(
                IF "nrNum" \in DOMAIN name_request
                THEN dict_setitem(name_requests, name_request.nrNum,
                                  [legalType |-> CorpType_NR, nameRequest |-> name_request])
                ELSE name_requests,
                requests, j + 1)

\* the places of the records of details[i][key]
RefsOf(details, i, key) ==
    IF isdict(details[i]) /\ key \in DOMAIN details[i]
    THEN [j \in 1..Len(details[i][key]) |-> <<i, key, j>>]
    ELSE <<>>

RECURSIVE group_details_from(_, _, _)
group_details_from(details, i, acc) ==
    IF i > Len(details) THEN acc
    ELSE LET nr_data == _extract_name_requests(details[i])
         IN  group_details_from(details, i + 1,
                [name_requests |-> group_name_requests(acc.name_requests, nr_data.requests, 1),
                 businesses |-> acc.businesses \o RefsOf(details, i, "businessEntities"),
                 drafts |-> acc.drafts \o RefsOf(details, i, "draftEntities")])

_group_details(details) ==
    group_details_from(details, 1, [name_requests |-> <<>>, businesses |-> <<>>, drafts |-> <<>>])

----------------------------------------------------------------------------
(* Affiliation._process_nr_for_business, Affiliation._combine_nrs *)

\* the record at a place of the heap
Obj(heap, ref) == heap[ref[1]][ref[2]][ref[3]]

SetObj(heap, ref, rec) ==
    [heap EXCEPT ![ref[1]] = [@ EXCEPT ![ref[2]] = [@ EXCEPT ![ref[3]] = rec]]]

\* list.index by ==: the first position of drafts whose record equals rec, 0 when none does
list_index(heap, drafts, rec) ==
    IF \E i \in DOMAIN drafts : Obj(heap, drafts[i]) = rec
    THEN CHOOSE i \in DOMAIN drafts :
            /\ Obj(heap, drafts[i]) = rec
            /\ \A j \in 1..(i - 1) : Obj(heap, drafts[j]) # rec
    ELSE 0

_update_draft_type_for_amalgamation_nr(business) ==
    IF /\ "draftType" \in DOMAIN business
       /\ business.draftType # ""
       /\ business.nameRequest.request_action_cd = NRActionCodes_AMALGAMATE
    THEN [business EXCEPT !.draftType = CorpType_ATMP]
    ELSE business

\* variant: the linked name request stays in the mapping
link_name_request_keeps_mapping(st, ref, nr_num, linked, at) ==
    IF linked.nameRequest.stateCd = NRStatus_CONSUMED /\ at = 0
    THEN [name_requests |-> st.name_requests, drafts |-> st.drafts,
          heap |-> SetObj(st.heap, ref, linked), error |-> ValueError, processed |-> FALSE]
    ELSE [name_requests |-> st.name_requests,
          drafts |-> IF linked.nameRequest.stateCd = NRStatus_CONSUMED
                     THEN list_pop(st.drafts, at) ELSE st.drafts,
          heap |-> SetObj(st.heap, ref, linked),
          error |-> st.error,
          processed |-> TRUE]

\* lines 596-601, for the record as linked: st = [name_requests, drafts, heap, error];
\* the result adds `processed`
link_name_request(st, ref, nr_num, linked, at) ==
    IF linked.nameRequest.stateCd = NRStatus_CONSUMED /\ at = 0
    THEN \* drafts.remove(business) raises: no record of drafts equals it
         [name_requests |-> st.name_requests, drafts |-> st.drafts,
          heap |-> SetObj(st.heap, ref, linked), error |-> ValueError, processed |-> FALSE]
    ELSE [name_requests |-> dict_delitem(st.name_requests, nr_num),
          drafts |-> IF linked.nameRequest.stateCd = NRStatus_CONSUMED
                     THEN list_pop(st.drafts, at) ELSE st.drafts,
          heap |-> SetObj(st.heap, ref, linked),
          error |-> st.error,
          processed |-> TRUE]

\* the record with the payload of its name request attached (lines 596-597)
linked_record(name_requests, business) ==
    _update_draft_type_for_amalgamation_nr(
        setitem(business, "nameRequest",
                dict_getitem(name_requests, business.nrNumber).nameRequest))

\* variant: a record that already carries a payload is not linked again
_process_nr_for_business_once(st, ref) ==
    IF /\ "nameRequest" \notin DOMAIN Obj(st.heap, ref)
       /\ Obj(st.heap, ref).nrNumber \in dict_keys(st.name_requests)
    THEN link_name_request(st, ref, Obj(st.heap, ref).nrNumber,
                           linked_record(st.name_requests, Obj(st.heap, ref)),
                           list_index(SetObj(st.heap, ref,
                                             linked_record(st.name_requests, Obj(st.heap, ref))),
                                      st.drafts,
                                      linked_record(st.name_requests, Obj(st.heap, ref))))
    ELSE [name_requests |-> st.name_requests, drafts |-> st.drafts, heap |-> st.heap,
          error |-> st.error, processed |-> FALSE]

_process_nr_for_business(st, ref) ==
    IF Obj(st.heap, ref).nrNumber \in dict_keys(st.name_requests)
    THEN link_name_request(st, ref, Obj(st.heap, ref).nrNumber,
                           linked_record(st.name_requests, Obj(st.heap, ref)),
                           list_index(SetObj(st.heap, ref,
                                             linked_record(st.name_requests, Obj(st.heap, ref))),
                                      st.drafts,
                                      linked_record(st.name_requests, Obj(st.heap, ref))))
    ELSE [name_requests |-> st.name_requests, drafts |-> st.drafts, heap |-> st.heap,
          error |-> st.error, processed |-> FALSE]

\* variant: a draft whose reference did not resolve is dropped whatever the caller asked
stale_draft_policy_always(p, at, remove_stale_drafts) ==
    [name_requests |-> p.name_requests,
     drafts |-> IF p.error = "" /\ ~p.processed /\ at # 0
                THEN list_pop(p.drafts, at) ELSE p.drafts,
     heap |-> p.heap,
     error |-> p.error]

\* lines 610-611: a draft whose reference did not resolve is dropped on request
stale_draft_policy(p, at, remove_stale_drafts) ==
    [name_requests |-> p.name_requests,
     drafts |-> IF p.error = "" /\ ~p.processed /\ remove_stale_drafts /\ at # 0
                THEN list_pop(p.drafts, at) ELSE p.drafts,
     heap |-> p.heap,
     error |-> p.error]

\* `business in drafts` and the place drafts.remove(business) removes
stale_draft_at(p, ref) == list_index(p.heap, p.drafts, Obj(p.heap, ref))

\* variant: a draft without a reference falls under the stale-draft policy too
combine_nrs_turn_unreferenced_stale(st, ref, remove_stale_drafts) ==
    IF "nrNumber" \in DOMAIN Obj(st.heap, ref) /\ Obj(st.heap, ref).nrNumber # ""
    THEN stale_draft_policy(_process_nr_for_business(st, ref),
                            stale_draft_at(_process_nr_for_business(st, ref), ref),
                            remove_stale_drafts)
    ELSE stale_draft_policy([name_requests |-> st.name_requests, drafts |-> st.drafts,
                             heap |-> st.heap, error |-> st.error, processed |-> FALSE],
                            stale_draft_at(st, ref), remove_stale_drafts)

\* one turn of the loop of _combine_nrs (lines 608-611)
combine_nrs_turn(st, ref, remove_stale_drafts) ==
    IF "nrNumber" \in DOMAIN Obj(st.heap, ref) /\ Obj(st.heap, ref).nrNumber # ""
    THEN stale_draft_policy(_process_nr_for_business(st, ref),
                            stale_draft_at(_process_nr_for_business(st, ref), ref),
                            remove_stale_drafts)
    ELSE st

RECURSIVE combine_nrs_loop(_, _, _, _)
combine_nrs_loop(st, snapshot, i, remove_stale_drafts) ==
    IF i > Len(snapshot) \/ st.error # "" THEN st
    ELSE combine_nrs_loop(combine_nrs_turn(st, snapshot[i], remove_stale_drafts),
                          snapshot, i + 1, remove_stale_drafts)

\* an element of the combined list: a standalone name request (a new dict) or a record of the heap
Standalone(value) == [kind |-> "value", value |-> value]
Ref(ref) == [kind |-> "ref", ref |-> ref]

\* line 612: list(name_requests.values()) + drafts + businesses
assemble(values, drafts, businesses) ==
    [i \in DOMAIN values |-> Standalone(values[i])]
    \o [i \in DOMAIN drafts |-> Ref(drafts[i])]
    \o [i \in DOMAIN businesses |-> Ref(businesses[i])]

\* what _combine_nrs leaves: [error, combined, heap]
combine_nrs_result(st, businesses) ==
    [error |-> st.error,
     heap |-> st.heap,
     combined |-> IF st.error # "" THEN <<>>
                  ELSE assemble(dict_values(st.name_requests), st.drafts, businesses)]

\* grouped = [name_requests, businesses, drafts]; heap holds the records they refer to
_combine_nrs(heap, grouped, remove_stale_drafts) ==
    combine_nrs_result(
        combine_nrs_loop([name_requests |-> grouped.name_requests, drafts |-> grouped.drafts,
                          heap |-> heap, error |-> ""],
                         grouped.drafts \o grouped.businesses, 1, remove_stale_drafts),
        grouped.businesses)

_combine_affiliation_details(details, remove_stale_drafts) ==
    _combine_nrs(details, _group_details(details), remove_stale_drafts)

----------------------------------------------------------------------------
(* Affiliation._sort_affiliations_by_created *)

\* what an element of the combined list holds
Content(heap, item) == IF item.kind = "ref" THEN Obj(heap, item.ref) ELSE item.value

\* item.get("identifier", item.get("nameRequest", {}).get("nrNum", ""))
item_identifier(c) ==
    IF "identifier" \in DOMAIN c THEN c.identifier
    ELSE IF "nameRequest" \in DOMAIN c /\ "nrNum" \in DOMAIN c.nameRequest
         THEN c.nameRequest.nrNum
         ELSE ""

\* variant: a sort that puts the smallest key first
RECURSIVE sort_ascending(_, _, _)
sort_ascending(keyed, i, acc) ==
    IF i > Len(keyed) THEN acc
    ELSE LET n == Cardinality({j \in DOMAIN acc : acc[j].key <= keyed[i].key})
         IN  sort_ascending(keyed, i + 1,
                            SubSeq(acc, 1, n) \o <<keyed[i]>> \o SubSeq(acc, n + 1, Len(acc)))

\* sort(key=..., reverse=True) of a list of [key, item]: largest key first, and elements
\* with equal keys stay in their order
RECURSIVE sort_reverse(_, _, _)
sort_reverse(keyed, i, acc) ==
    IF i > Len(keyed) THEN acc
    ELSE LET n == Cardinality({j \in DOMAIN acc : acc[j].key >= keyed[i].key})
         IN  sort_reverse(keyed, i + 1,
                          SubSeq(acc, 1, n) \o <<keyed[i]>> \o SubSeq(acc, n + 1, Len(acc)))

\* lines 513-516: identifier -> created; of several bases with one identifier the last
\* of the sorted list stays
ordered_get(affiliation_bases, identifier) ==
    LET by_created == sort_reverse([i \in DOMAIN affiliation_bases |->
                                       [key |-> affiliation_bases[i].created,
                                        item |-> affiliation_bases[i]]], 1, <<>>)
        hits == {i \in DOMAIN by_created : by_created[i].item.identifier = identifier}
    IN  IF hits = {} THEN datetime_min
        ELSE by_created[CHOOSE i \in hits : \A j \in hits : j <= i].item.created

sort_key(heap, affiliation_bases, item) ==
    ordered_get(affiliation_bases, item_identifier(Content(heap, item)))

_sort_affiliations_by_created(heap, combined, affiliation_bases) ==
    LET sorted == sort_reverse([i \in DOMAIN combined |->
                                   [key |-> sort_key(heap, affiliation_bases, combined[i]),
                                    item |-> combined[i]]], 1, <<>>)
    IN  [i \in DOMAIN sorted |-> sorted[i].item]

----------------------------------------------------------------------------
(* RestService.call_posts_in_parallel, Affiliation.get_affiliation_details *)

\* the answer of a call that failed
Unavailable == [kind |-> "unavailable"]

\* the gateway: every call is awaited; the responses in the order of the calls, or
\* ServiceUnavailableException when a call failed
call_posts_in_parallel(answers) ==
    IF \E i \in DOMAIN answers : answers[i] = Unavailable
    THEN [error |-> ServiceUnavailableException, responses |-> <<>>]
    ELSE [error |-> "", responses |-> answers]

\* any(r.get("hasMore", False) for r in responses if isinstance(r, dict))
has_more_apis(responses) ==
    \E i \in DOMAIN responses :
        isdict(responses[i]) /\ "hasMore" \in DOMAIN responses[i] /\ responses[i].hasMore

\* what a request ends with: an error, or the list and hasMore; heap holds the response
\* objects as the request leaves them, assembled the list before it was sorted
Raised(error, heap) ==
    [error |-> error, combined |-> <<>>, assembled |-> <<>>, has_more |-> FALSE, heap |-> heap]

\* lines 500-504, given what combining left
sorted_result(affiliation_bases, responses, c) ==
    IF c.error # "" THEN Raised(c.error, c.heap)
    ELSE [error |-> "",
          combined |-> _sort_affiliations_by_created(c.heap, c.combined, affiliation_bases),
          assembled |-> c.combined,
          has_more |-> has_more_apis(responses),
          heap |-> c.heap]

\* variant: a failed call is left out and the other responses are combined
details_of_answers_partial(affiliation_bases, remove_stale_drafts, answers, r) ==
    sorted_result(affiliation_bases, SelectSeq(answers, LAMBDA a : a # Unavailable),
                  _combine_affiliation_details(SelectSeq(answers, LAMBDA a : a # Unavailable),
                                               remove_stale_drafts))

\* lines 497-508, r being what the gateway returned or raised
details_of_answers(affiliation_bases, remove_stale_drafts, answers, r) ==
    IF r.error # "" THEN Raised(ServiceUnavailableException, answers)
    ELSE sorted_result(affiliation_bases, r.responses,
                       _combine_affiliation_details(r.responses, remove_stale_drafts))

\* get_affiliation_details, given the answers of the gateway to its calls
get_affiliation_details(affiliation_bases, remove_stale_drafts, answers) ==
    details_of_answers(affiliation_bases, remove_stale_drafts, answers,
                       call_posts_in_parallel(answers))

----------------------------------------------------------------------------
(* One reconciliation request, step by step *)

\* what the caller sees of a request: the error, or the records (as they are when the
\* request returns) and hasMore
Seen(out) ==
    [error |-> out.error,
     records |-> [i \in DOMAIN out.combined |-> Content(out.heap, out.combined[i])],
     items |-> out.combined,
     assembled |-> out.assembled,
     has_more |-> out.has_more]

NotRun == [error |-> "not run"]

\* the request returned `out`
returned(rc, out) == [rc EXCEPT !.pc = "returned", !.first = Seen(out), !.heap = out.heap]

\* the repeated request returned `out`
repeated(rc, out) ==
    [rc EXCEPT !.pc = "repeated", !.search_details = force_single_page(rc.search_details),
               !.second = Seen(out), !.heap = out.heap]

\* lines 475-492: the page is forced and the calls are built
issue_calls ==
    /\ recon.pc = "start"
    /\ LET search_details == force_single_page(recon.search_details)
       IN  recon' = [recon EXCEPT !.pc = "calling",
                                  !.search_details = search_details,
                                  !.call_info = call_info(recon.affiliation_bases, search_details)]
    /\ UNCHANGED <<memberships, membersJoin, kcGroups, last, procs, affil>>

\* the next call of the fan-out completes with a response
gateway_call_completes ==
    /\ recon.pc = "calling"
    /\ Len(recon.answers) < Len(recon.call_info)
    /\ \E response \in ResponsesOf(recon.call_info[Len(recon.answers) + 1].url) :
          recon' = [recon EXCEPT !.answers = Append(@, response),
                                 !.heap = Append(@, response)]
    /\ UNCHANGED <<memberships, membersJoin, kcGroups, last, procs, affil>>

\* the next call of the fan-out fails
gateway_call_fails ==
    /\ recon.pc = "calling"
    /\ Len(recon.answers) < Len(recon.call_info)
    /\ recon' = [recon EXCEPT !.answers = Append(@, Unavailable),
                              !.heap = Append(@, Unavailable)]
    /\ UNCHANGED <<memberships, membersJoin, kcGroups, last, procs, affil>>

\* every call has ended: lines 497-508
get_affiliation_details_returns ==
    /\ recon.pc = "calling"
    /\ Len(recon.answers) = Len(recon.call_info)
    /\ recon' = returned(recon, get_affiliation_details(recon.affiliation_bases,
                                                        recon.remove_stale_drafts, recon.heap))
    /\ UNCHANGED <<memberships, membersJoin, kcGroups, last, procs, affil>>

\* the same request again: the same bases and search object, and the gateway answers
\* with the same response objects, as the first request left them
get_affiliation_details_again ==
    /\ recon.pc = "returned"
    /\ recon' = repeated(recon, get_affiliation_details(recon.affiliation_bases,
                                                        recon.remove_stale_drafts, recon.heap))
    /\ UNCHANGED <<memberships, membersJoin, kcGroups, last, procs, affil>>

InitRecon ==
    /\ \E affiliation_bases \in AffiliationBaseLists, search_details \in SearchArgs,
          remove_stale_drafts \in BOOLEAN :
          recon = [pc |-> "start",
                   affiliation_bases |-> affiliation_bases,
                   search_details |-> search_details,
                   remove_stale_drafts |-> remove_stale_drafts,
                   call_info |-> <<>>,
                   answers |-> <<>>,
                   heap |-> <<>>,
                   first |-> NotRun,
                   second |-> NotRun]
    /\ memberships = <<>>
    /\ membersJoin = Statuses
    /\ kcGroups = {}
    /\ last = NoCall
    /\ procs = NoProcs
    /\ affil = NoAffil

NextRecon ==
    \/ issue_calls
    \/ gateway_call_completes
    \/ gateway_call_fails
    \/ get_affiliation_details_returns
    \/ get_affiliation_details_again

SpecRecon == InitRecon /\ [][NextRecon]_vars

----------------------------------------------------------------------------
(* Affiliation authorization and the affiliation table: services/affiliation.py *)
(*                                                                              *)
(* A Python str is the sequence of its characters, so that the comparisons the *)
(* code makes after normalising a string are computed and not assumed.         *)

\* the number of orgs
OrgCount == 2

\* the letters that occur in the strings that are covered: <<lower case, upper case>>
Letters == {<<"a", "A">>, <<"c", "C">>, <<"d", "D">>, <<"j", "J">>, <<"m", "M">>, <<"o", "O">>}

\* str.upper, str.casefold of one character
upper_char(c) == IF \E l \in Letters : l[1] = c THEN (CHOOSE l \in Letters : l[1] = c)[2] ELSE c
casefold_char(c) == IF \E l \in Letters : l[2] = c THEN (CHOOSE l \in Letters : l[2] = c)[1] ELSE c

str_upper(s) == [i \in DOMAIN s |-> upper_char(s[i])]
str_casefold(s) == [i \in DOMAIN s |-> casefold_char(s[i])]

str_isspace(c) == c \in {" ", "\t"}
str_isdigit(c) == c \in {"0", "1", "2", "3", "4", "5", "6", "7", "8", "9"}

\* str.split(): the maximal runs of characters that are not whitespace
RECURSIVE split_from(_, _, _, _)
split_from(s, i, word, acc) ==
    LET closed == IF word = <<>> THEN acc ELSE Append(acc, word)
    IN  IF i > Len(s) THEN closed
        ELSE IF str_isspace(s[i]) THEN split_from(s, i + 1, <<>>, closed)
        ELSE split_from(s, i + 1, Append(word, s[i]), acc)

str_split(s) == split_from(s, 1, <<>>, <<>>)

\* sep.join(words)
RECURSIVE str_join(_, _)
str_join(sep, words) ==
    IF words = <<>> THEN <<>>
    ELSE IF Len(words) = 1 THEN words[1]
    ELSE words[1] \o sep \o str_join(sep, Tail(words))

\* " ".join(s.split()): "remove duplicate spaces"
remove_duplicate_spaces(s) == str_join(<<" ">>, str_split(s))

\* re.sub(r"\D", "", s)
re_sub_non_digits(s) == SelectSeq(s, str_isdigit)

\* bool(v) of a value that is None or a str
py_bool(v) == v # None /\ v.value # <<>>

\* `v or ""`
or_empty(v) == IF py_bool(v) THEN v ELSE PyStr(<<>>)

\* dict.get(key) of a record whose fields are the keys that are present
dict_get(d, key) == IF key \in DOMAIN d THEN d[key] ELSE None

----------------------------------------------------------------------------
(* The callers, the entities and the registry answers that are covered *)

Role_SKIP_AFFILIATION_AUTH == "skip_affiliation_auth"
Role_STAFF == "staff"
Role_SYSTEM == "system"

\* the users that hold an ACTIVE membership in an SBC_STAFF org
SbcStaffUsers == {"sbc1"}

\* UserContext and the user of the token: a member of the public, a service account
\* with the bypass role, a staff user, a member of the SBC staff org, a system account
UserContexts ==
    { [roles |-> {}, current_user |-> "pub1"],
      [roles |-> {Role_SKIP_AFFILIATION_AUTH}, current_user |-> "None"],
      [roles |-> {Role_STAFF}, current_user |-> "staff1"],
      [roles |-> {}, current_user |-> "sbc1"] }

PublicCaller == [roles |-> {}, current_user |-> "pub1"]

\* the stored passcode is a hash of the passcode
passcode_hash(s) == PyStr(<<"#">> \o s)

str_1234 == <<"1", "2", "3", "4">>
str_Do_Jo == <<"D", "o", ",", " ", "J", "o">>
str_do_JO_spaced == <<" ", "d", "o", ",", " ", " ", "J", "O", " ">>
str_doJo == <<"d", "o", ",", "J", "o">>
str_DO_JO_m == <<"D", "O", ",", " ", "J", "O", " ", "m">>

\* the passcodes a caller supplies: none, the empty string, a numeric passcode, a
\* party name in another case and spacing, a party name without its space, a party
\* name with a middle initial
PassCodes ==
    {None, PyStr(<<>>), PyStr(str_1234), PyStr(str_do_JO_spaced), PyStr(str_doJo),
     PyStr(str_DO_JO_m)}

\* the parties of a firm as legal-api returns them
PersonParty(last_name, first_name) ==
    [officer |-> [partyType |-> "person", lastName |-> last_name, firstName |-> first_name]]
PersonPartyWithInitial(last_name, first_name, initial) ==
    [officer |-> [partyType |-> "person", lastName |-> last_name, firstName |-> first_name,
                  middleInitial |-> initial]]
OrganizationParty(name) ==
    [officer |-> [partyType |-> "organization", organizationName |-> name]]

HTTPError == [kind |-> "HTTPError"]
NotAsked == [kind |-> "not asked"]

\* the answers of legal-api: a person "Do, Jo"; an organization "AC" and a person
\* "Do, Jo M"; an organization "DO,  jo"
Parties_Person == [parties |-> <<PersonParty(<<"D", "o">>, <<"J", "o">>)>>]
Parties_OrganizationAndInitial ==
    [parties |-> <<OrganizationParty(<<"A", "C">>),
                   PersonPartyWithInitial(<<"D", "o">>, <<"J", "o">>, <<"M">>)>>]
Parties_OrganizationSpaced ==
    [parties |-> <<OrganizationParty(<<"D", "O", ",", " ", " ", "j", "o">>)>>]

PartiesAnswers ==
    {HTTPError, [parties |-> <<>>], Parties_Person, Parties_OrganizationAndInitial,
     Parties_OrganizationSpaced}

----------------------------------------------------------------------------
(* Affiliation.has_role_to_skip_auth, Affiliation.is_authorized *)

user_from_context_has_role(ctx, role) == role \in ctx.roles
user_from_context_is_staff(ctx) == Role_STAFF \in ctx.roles
user_from_context_is_system(ctx) == Role_SYSTEM \in ctx.roles

\* MembershipModel.check_if_sbc_staff
check_if_sbc_staff(user) == user \in SbcStaffUsers

\* lines 666-676
has_role_to_skip_auth(ctx) ==
    \/ user_from_context_has_role(ctx, Role_SKIP_AFFILIATION_AUTH)
    \/ user_from_context_is_staff(ctx)
    \/ (ctx.current_user # "None" /\ check_if_sbc_staff(ctx.current_user))

\* auth_api.utils.passcode.validate_passcode: the supplied passcode hashes to the
\* stored value; an empty stored value matches nothing
validate_passcode(pass_code, stored) ==
    py_bool(pass_code) /\ py_bool(stored) /\ stored = passcode_hash(pass_code.value)

\* lines 648-654: the composed name of a party
party_name_of(party) ==
    LET officer == party.officer
        full == officer.lastName \o <<",", " ">> \o officer.firstName
    IN  IF officer.partyType = "organization" THEN officer.organizationName
        ELSE IF "middleInitial" \in DOMAIN officer /\ officer.middleInitial # <<>>
             THEN full \o <<" ">> \o officer.middleInitial
             ELSE full

\* lines 656-661: the comparison made for one party
party_matches(party, party_name_str) ==
    str_upper(remove_duplicate_spaces(party_name_str))
        = str_upper(remove_duplicate_spaces(party_name_of(party)))

Returned(value, lookup) == [raised |-> "", value |-> value, lookup |-> lookup]
RaisedBy(error, lookup) == [raised |-> error, value |-> FALSE, lookup |-> lookup]

DATA_NOT_FOUND == "DATA_NOT_FOUND"

\* lines 636-662: the registry is asked for the parties; answer is what it says
_validate_firms_party(answer, party_name_str) ==
    IF answer = HTTPError THEN RaisedBy(DATA_NOT_FOUND, answer)
    ELSE Returned(\E i \in DOMAIN answer.parties : party_matches(answer.parties[i], party_name_str),
                  answer)

\* variant: an entity without a stored passcode accepts every passcode
is_authorized_empty_stored_accepts(ctx, entity, pass_code, answer) ==
    IF has_role_to_skip_auth(ctx) THEN Returned(TRUE, NotAsked)
    ELSE IF entity.corp_type \in {"SP", "GP"}
         THEN IF ~py_bool(pass_code) THEN Returned(FALSE, NotAsked)
              ELSE _validate_firms_party(answer, pass_code.value)
    ELSE IF ~py_bool(entity.pass_code) THEN Returned(TRUE, NotAsked)
    ELSE IF py_bool(pass_code) THEN Returned(validate_passcode(pass_code, entity.pass_code), NotAsked)
    ELSE Returned(FALSE, NotAsked)

\* variant: the parties of a firm are looked up before the passcode is looked at
is_authorized_lookup_first(ctx, entity, pass_code, answer) ==
    IF has_role_to_skip_auth(ctx) THEN Returned(TRUE, NotAsked)
    ELSE IF entity.corp_type \in {"SP", "GP"}
         THEN IF ~py_bool(pass_code) THEN Returned(FALSE, answer)
              ELSE _validate_firms_party(answer, pass_code.value)
    ELSE IF py_bool(pass_code) THEN Returned(validate_passcode(pass_code, entity.pass_code), NotAsked)
    ELSE IF py_bool(entity.pass_code) THEN Returned(FALSE, NotAsked)
    ELSE Returned(TRUE, NotAsked)

\* variant: a stored passcode is required only of a caller who supplies one
is_authorized_none_supplied_passes(ctx, entity, pass_code, answer) ==
    IF has_role_to_skip_auth(ctx) THEN Returned(TRUE, NotAsked)
    ELSE IF entity.corp_type \in {"SP", "GP"}
         THEN IF ~py_bool(pass_code) THEN Returned(FALSE, NotAsked)
              ELSE _validate_firms_party(answer, pass_code.value)
    ELSE IF py_bool(pass_code) THEN Returned(validate_passcode(pass_code, entity.pass_code), NotAsked)
    ELSE Returned(TRUE, NotAsked)

\* lines 202-217; answer is what the registry says if it is asked for the parties
is_authorized(ctx, entity, pass_code, answer) ==
    IF has_role_to_skip_auth(ctx) THEN Returned(TRUE, NotAsked)
    ELSE IF entity.corp_type \in {"SP", "GP"}
         THEN IF ~py_bool(pass_code) THEN Returned(FALSE, NotAsked)
              ELSE _validate_firms_party(answer, pass_code.value)
    ELSE IF py_bool(pass_code) THEN Returned(validate_passcode(pass_code, entity.pass_code), NotAsked)
    ELSE IF py_bool(entity.pass_code) THEN Returned(FALSE, NotAsked)
    ELSE Returned(TRUE, NotAsked)

----------------------------------------------------------------------------
(* The entity table and the affiliation table *)

\* Entity rows in the order of their ids: the id of a row is its position.  name and
\* business_identifier are opaque; pass_code is None or a str.
EntityRow(business_identifier, corp_type, name, pass_code, status) ==
    [business_identifier |-> business_identifier, corp_type |-> corp_type, name |-> name,
     pass_code |-> pass_code, pass_code_claimed |-> FALSE, status |-> status]

\* Affiliation rows: a bag, [row -> number of rows with these values]
AffiliationModel(org_id, entity_id, certified_by_name) ==
    [org_id |-> org_id, entity_id |-> entity_id, certified_by_name |-> certified_by_name]

bag_count(bag, row) == IF row \in DOMAIN bag THEN bag[row] ELSE 0

\* affiliation.save() of a new row
bag_add(bag, row) ==
    [r \in DOMAIN bag \cup {row} |-> bag_count(bag, r) + (IF r = row THEN 1 ELSE 0)]

\* affiliation.delete()
bag_remove(bag, row) ==
    [r \in {x \in DOMAIN bag : x # row \/ bag[x] > 1} |-> bag[r] - (IF r = row THEN 1 ELSE 0)]

\* the orgs that exist
OrgIds == 1..OrgCount

\* an org id that no org has
MissingOrgId == OrgCount + 1

\* OrgService.find_by_org_id: None when there is no such org
find_by_org_id(org_id) == IF org_id \in OrgIds THEN org_id ELSE 0

\* EntityService.find_by_business_identifier: the id of the entity, 0 for None
find_by_business_identifier(entities, business_identifier) ==
    IF \E i \in DOMAIN entities : entities[i].business_identifier = business_identifier
    THEN CHOOSE i \in DOMAIN entities :
            /\ entities[i].business_identifier = business_identifier
            /\ \A j \in 1..(i - 1) : entities[j].business_identifier # business_identifier
    ELSE 0

\* AffiliationModel.find_affiliation_by_org_and_entity_ids: the rows that match
find_affiliation_by_org_and_entity_ids(affiliations, org_id, entity_id) ==
    {r \in DOMAIN affiliations : r.org_id = org_id /\ r.entity_id = entity_id}

\* AffiliationModel.find_affiliations_by_entity_id
find_affiliations_by_entity_id(affiliations, entity_id) ==
    {r \in DOMAIN affiliations : r.entity_id = entity_id}

\* entity.set_pass_code_claimed(value)
set_pass_code_claimed(entities, entity_id, value) ==
    [entities EXCEPT ![entity_id].pass_code_claimed = value]

CorpType_RTMP == "RTMP"
CorpType_CTMP == "CTMP"
TempCorpTypes == {CorpType_RTMP, CorpType_TMP, CorpType_ATMP, CorpType_CTMP}

NRStatus_DRAFT == "DRAFT"
NRStatus_CONDITIONAL == "CONDITIONAL"
NRStatus_INPROGRESS == "INPROGRESS"
NRNameStatus_APPROVED == "APPROVED"
NRNameStatus_CONDITION == "CONDITION"

INVALID_USER_CREDENTIALS == "INVALID_USER_CREDENTIALS"
DATA_ALREADY_EXISTS == "DATA_ALREADY_EXISTS"
NR_INVALID_CONTACT == "NR_INVALID_CONTACT"
NR_NOT_FOUND == "NR_NOT_FOUND"
NR_INVALID_STATUS == "NR_INVALID_STATUS"
NR_INVALID_APPLICANTS == "NR_INVALID_APPLICANTS"
NR_NOT_PAID == "NR_NOT_PAID"

\* the tables and what a call did to them
Tables(entities, affiliations) == [entities |-> entities, affiliations |-> affiliations]

Done(result, tables, effects, authorized) ==
    [result |-> result, tables |-> tables, effects |-> effects, authorized |-> authorized]

\* is_authorized was not reached
NotReached == [raised |-> "not reached", value |-> FALSE, lookup |-> NotAsked]

----------------------------------------------------------------------------
(* Affiliation.create_affiliation *)

\* lines 187-199: the rows written and what is published once every check passed
create_affiliation_save(t, org_id, entity_id, certified_by_name, authorized) ==
    LET entity == t.entities[entity_id]
        claims == entity.corp_type \notin {"SP", "GP"}
        logs == entity.corp_type \notin TempCorpTypes
    IN  Done(OK,
             Tables(IF claims THEN set_pass_code_claimed(t.entities, entity_id, TRUE)
                    ELSE t.entities,
                    bag_add(t.affiliations, AffiliationModel(org_id, entity_id, certified_by_name))),
             <<"affiliation.save">>
                \o SeqIf(claims, "set_pass_code_claimed")
                \o SeqIf(logs, "publish_activity:CREATE_AFFILIATION")
                \o <<"publish_affiliation_event:BUSINESS_AFFILIATED">>,
             authorized)

\* variant: the row is saved without looking for an existing one
create_affiliation_checked_no_lookup(t, org_id, entity_id, certified_by_name, authorized) ==
    IF authorized.raised # "" THEN Done(authorized.raised, t, <<>>, authorized)
    ELSE IF ~authorized.value THEN Done(INVALID_USER_CREDENTIALS, t, <<>>, authorized)
    ELSE create_affiliation_save(t, org_id, entity_id, certified_by_name, authorized)

\* lines 177-199: authorized is what is_authorized did
create_affiliation_checked(t, org_id, entity_id, certified_by_name, authorized) ==
    IF authorized.raised # "" THEN Done(authorized.raised, t, <<>>, authorized)
    ELSE IF ~authorized.value THEN Done(INVALID_USER_CREDENTIALS, t, <<>>, authorized)
    ELSE IF find_affiliation_by_org_and_entity_ids(t.affiliations, org_id, entity_id) # {}
         THEN Done(DATA_ALREADY_EXISTS, t, <<>>, authorized)
    ELSE create_affiliation_save(t, org_id, entity_id, certified_by_name, authorized)

\* lines 155-199
create_affiliation(t, ctx, org_id, business_identifier, pass_code, certified_by_name, skip_membership_check, answer) ==
    LET entity_id == find_by_business_identifier(t.entities, business_identifier)
    IN  IF ~skip_membership_check /\ find_by_org_id(org_id) = 0
        THEN Done(DATA_NOT_FOUND, t, <<>>, NotReached)
        ELSE IF entity_id = 0 THEN Done(DATA_NOT_FOUND, t, <<>>, NotReached)
        ELSE create_affiliation_checked(t, org_id, entity_id, certified_by_name,
                                        is_authorized(ctx, t.entities[entity_id], pass_code, answer))

----------------------------------------------------------------------------
(* Affiliation.delete_affiliation *)

\* `"NR " in entity.business_identifier`
contains_NR_space(business_identifier) == business_identifier \in {"NR 1"}

\* lines 403-413: what is published for an entity that is not a temporary business
delete_affiliation_published(entity, log_delete_draft) ==
    LET name_request == \/ (entity.status \in {NRStatus_DRAFT, NRStatus_CONSUMED}
                            /\ entity.corp_type = CorpType_NR)
                        \/ contains_NR_space(entity.business_identifier)
        publish == log_delete_draft \/ ~name_request
    IN  SeqIf(publish, "publish_activity:REMOVE_AFFILIATION")
        \o <<"publish_affiliation_event:BUSINESS_UNAFFILIATED">>

\* lines 385-413: affiliation is the row that was found; no invitation refers to it
\* and the request does not ask for a passcode reset (da.reset_passcode is False)
delete_affiliation_found(t, entity_id, affiliation, log_delete_draft) ==
    Done(OK,
         Tables(set_pass_code_claimed(t.entities, entity_id, FALSE),
                bag_remove(t.affiliations, affiliation)),
         <<"affiliation.delete", "set_pass_code_claimed">>
            \o (IF t.entities[entity_id].corp_type \in TempCorpTypes THEN <<>>
                ELSE delete_affiliation_published(t.entities[entity_id], log_delete_draft)),
         NotReached)

\* lines 360-413
delete_affiliation(t, da) ==
    LET entity_id == find_by_business_identifier(t.entities, da.business_identifier)
        found == find_affiliation_by_org_and_entity_ids(t.affiliations, da.org_id, entity_id)
    IN  IF find_by_org_id(da.org_id) = 0 THEN Done(DATA_NOT_FOUND, t, <<>>, NotReached)
        ELSE IF entity_id = 0 THEN Done(DATA_NOT_FOUND, t, <<>>, NotReached)
        ELSE IF found = {} THEN Done(DATA_NOT_FOUND, t, <<>>, NotReached)
        ELSE delete_affiliation_found(t, entity_id, CHOOSE r \in found : TRUE,
                                      da.log_delete_draft)

----------------------------------------------------------------------------
(* Affiliation.validate_new_business_affiliation *)

EmptyDict == <<>>

\* nr_json.get("state")
nr_state(nr_json) == IF "state" \in DOMAIN nr_json THEN nr_json.state ELSE "None"

\* applicants.get(key) or ""
applicant_field(nr_json, key) ==
    IF "applicants" \in DOMAIN nr_json /\ key \in DOMAIN nr_json.applicants
    THEN nr_json.applicants[key] ELSE <<>>

\* variant: the phone numbers are compared as they are written
_contacts_match_raw_phone(phone, email, nr_json) ==
    LET nr_phone == applicant_field(nr_json, "phoneNumber")
        nr_email == applicant_field(nr_json, "emailAddress")
        phone_match == ~py_bool(phone) \/ phone.value = nr_phone
        email_match == ~py_bool(email) \/ str_casefold(email.value) = str_casefold(nr_email)
    IN  phone_match /\ email_match

\* lines 337-346
_contacts_match(phone, email, nr_json) ==
    LET nr_phone == applicant_field(nr_json, "phoneNumber")
        nr_email == applicant_field(nr_json, "emailAddress")
        phone_match == ~py_bool(phone) \/ re_sub_non_digits(phone.value) = re_sub_non_digits(nr_phone)
        email_match == ~py_bool(email) \/ str_casefold(email.value) = str_casefold(nr_email)
    IN  phone_match /\ email_match

\* lines 308-327: the error raised for what the name-request registry answered, "" for none
_get_and_validate_nr_details(nr_answer) ==
    IF nr_answer = HTTPError THEN DATA_NOT_FOUND
    ELSE IF nr_answer = EmptyDict THEN NR_NOT_FOUND
    ELSE IF nr_state(nr_answer) \notin {NRStatus_APPROVED, NRStatus_CONDITIONAL, NRStatus_DRAFT,
                                        NRStatus_INPROGRESS}
         THEN NR_INVALID_STATUS
    ELSE IF "applicants" \notin DOMAIN nr_answer \/ nr_answer.applicants = EmptyDict
         THEN NR_INVALID_APPLICANTS
    ELSE ""

\* lines 330-334: the error raised for what the payment service answered, "" for none
_validate_nr_payment(pay_answer) ==
    IF pay_answer = HTTPError THEN "HTTPError"
    ELSE IF /\ pay_answer # EmptyDict
            /\ "invoices" \in DOMAIN pay_answer
            /\ pay_answer.invoices # <<>>
            /\ dict_get(pay_answer.invoices[1], "statusCode") = PyStr("COMPLETED")
         THEN ""
    ELSE NR_NOT_PAID

\* lines 277-298: the error raised, "" when the request is valid
validate_new_business_affiliation(ctx, affiliation_data, nr_answer, pay_answer) ==
    LET user_is_staff == has_role_to_skip_auth(ctx)
        nr_error == _get_and_validate_nr_details(nr_answer)
    IN  IF ~user_is_staff /\ ~(py_bool(affiliation_data.email) \/ py_bool(affiliation_data.phone))
        THEN NR_INVALID_CONTACT
        ELSE IF find_by_org_id(affiliation_data.org_id) = 0 THEN DATA_NOT_FOUND
        ELSE IF nr_error # "" THEN nr_error
        ELSE IF nr_state(nr_answer) = NRStatus_DRAFT /\ _validate_nr_payment(pay_answer) # ""
             THEN _validate_nr_payment(pay_answer)
        ELSE IF ~user_is_staff
                /\ ~_contacts_match(affiliation_data.phone, affiliation_data.email, nr_answer)
             THEN NR_INVALID_CONTACT
        ELSE ""

----------------------------------------------------------------------------
(* Affiliation.create_new_business_affiliation *)

\* lines 234-239: the first name of the name request in the state that is looked for
nr_name(nr_json) ==
    LET nr_name_state == IF nr_state(nr_json) = NRStatus_APPROVED THEN NRNameStatus_APPROVED
                         ELSE NRNameStatus_CONDITION
        names == nr_json.names
        hits == {i \in DOMAIN names : names[i].state = nr_name_state}
    IN  IF hits = {} THEN ""
        ELSE names[CHOOSE i \in hits : \A j \in hits : i <= j].name

\* lines 241-248: EntityService.save_entity of the name request
save_entity(entities, business_identifier, nr_json) ==
    Append(entities,
           [EntityRow(business_identifier, CorpType_NR,
                      IF nr_name(nr_json) # "" THEN nr_name(nr_json) ELSE business_identifier,
                      None, "None")
            EXCEPT !.pass_code_claimed = TRUE])

\* lines 231-248: the entity table and the id of the entity of the name request
entity_of_name_request(entities, business_identifier, nr_json) ==
    IF find_by_business_identifier(entities, business_identifier) # 0
    THEN [entities |-> entities, created |-> FALSE,
          id |-> find_by_business_identifier(entities, business_identifier)]
    ELSE [entities |-> save_entity(entities, business_identifier, nr_json), created |-> TRUE,
          id |-> Len(entities) + 1]

\* variant: a new affiliation row is written whether or not the org has one
affiliate_name_request_always_new(e, affiliations, org_id, certified_by_name) ==
    Done(OK,
         Tables(set_pass_code_claimed(e.entities, e.id, TRUE),
                bag_add(affiliations, AffiliationModel(org_id, e.id, certified_by_name))),
         SeqIf(e.created, "save_entity")
            \o SeqIf(e.entities[e.id].corp_type \notin TempCorpTypes,
                     "publish_activity:CREATE_AFFILIATION")
            \o <<"affiliation.save", "set_pass_code_claimed">>,
         NotReached)

\* lines 250-274: e is the entity of the name request
affiliate_name_request(e, affiliations, org_id, certified_by_name) ==
    LET found == find_affiliation_by_org_and_entity_ids(affiliations, org_id, e.id)
        row == AffiliationModel(org_id, e.id, certified_by_name)
    IN  Done(OK,
             Tables(set_pass_code_claimed(e.entities, e.id, TRUE),
                    IF found = {} THEN bag_add(affiliations, row)
                    ELSE bag_add(bag_remove(affiliations, CHOOSE r \in found : TRUE), row)),
             SeqIf(e.created, "save_entity")
                \o SeqIf(found = {} /\ e.entities[e.id].corp_type \notin TempCorpTypes,
                         "publish_activity:CREATE_AFFILIATION")
                \o <<"affiliation.save", "set_pass_code_claimed">>,
             NotReached)

\* variant: the entity of the name request is saved before the request is validated
create_new_business_affiliation_entity_first(t, ctx, affiliation_data, nr_answer, pay_answer) ==
    LET error == validate_new_business_affiliation(ctx, affiliation_data, nr_answer, pay_answer)
        named == IF nr_answer # HTTPError /\ "names" \in DOMAIN nr_answer THEN nr_answer
                 ELSE [names |-> <<>>]
        e == entity_of_name_request(t.entities, affiliation_data.business_identifier, named)
    IN  IF error # ""
        THEN Done(error, Tables(e.entities, t.affiliations), SeqIf(e.created, "save_entity"),
                  NotReached)
        ELSE affiliate_name_request(e, t.affiliations, affiliation_data.org_id,
                                    affiliation_data.certified_by_name)

\* lines 220-274
create_new_business_affiliation(t, ctx, affiliation_data, nr_answer, pay_answer) ==
    LET error == validate_new_business_affiliation(ctx, affiliation_data, nr_answer, pay_answer)
    IN  IF error # "" THEN Done(error, t, <<>>, NotReached)
        ELSE affiliate_name_request(
                entity_of_name_request(t.entities, affiliation_data.business_identifier, nr_answer),
                t.affiliations, affiliation_data.org_id, affiliation_data.certified_by_name)

----------------------------------------------------------------------------
(* One is_authorized call, step by step *)

\* the entity descriptors that are covered: a corporation, a sole proprietorship and
\* a general partnership, each without a stored passcode, with an empty one, with one
EntityDescriptors ==
    {EntityRow(identifier_type[1], identifier_type[2], "ACME", pass_code, "None") :
        identifier_type \in {<<"BC1", "BC">>, <<"FM1", "SP">>, <<"FM2", "GP">>},
        pass_code \in {None, PyStr(<<>>), passcode_hash(str_1234)}}

\* whether is_authorized reaches RestService.get for the parties of the firm
is_authorized_asks(ctx, entity, pass_code) ==
    is_authorized(ctx, entity, pass_code, HTTPError).lookup # NotAsked

\* the call runs up to its return, or up to the GET of the parties
is_authorized_starts ==
    /\ affil.pc = "called"
    /\ affil' = IF is_authorized_asks(affil.ctx, affil.entity, affil.pass_code)
                THEN [affil EXCEPT !.pc = "lookup", !.lookups = 1]
                ELSE [affil EXCEPT !.pc = "returned",
                                   !.out = is_authorized(affil.ctx, affil.entity, affil.pass_code,
                                                         NotAsked)]
    /\ UNCHANGED <<memberships, membersJoin, kcGroups, last, procs, recon>>

\* the registry answers (or fails) and the call returns
registry_answers_parties ==
    /\ affil.pc = "lookup"
    /\ \E answer \in PartiesAnswers :
          affil' = [affil EXCEPT !.pc = "returned",
                                 !.out = is_authorized(affil.ctx, affil.entity, affil.pass_code,
                                                       answer)]
    /\ UNCHANGED <<memberships, membersJoin, kcGroups, last, procs, recon>>

InitAuthz ==
    /\ \E ctx \in UserContexts, entity \in EntityDescriptors, pass_code \in PassCodes :
          affil = [pc |-> "called", ctx |-> ctx, entity |-> entity, pass_code |-> pass_code,
                   lookups |-> 0, out |-> NotReached]
    /\ memberships = <<>>
    /\ membersJoin = Statuses
    /\ kcGroups = {}
    /\ last = NoCall
    /\ procs = NoProcs
    /\ recon = NoRecon

NextAuthz ==
    \/ is_authorized_starts
    \/ registry_answers_parties

SpecAuthz == InitAuthz /\ [][NextAuthz]_vars

----------------------------------------------------------------------------
(* One validate_new_business_affiliation call *)

str_applicant_phone == <<"2", "5", "0", "-", "5", " ", "1">>
str_phone_digits == <<"(", "2", "5", "0", ")", "5", "1">>
str_phone_other == <<"2", "5", "0", "5", "2">>
str_phone_no_digits == <<"-">>
str_applicant_email == <<"j", "o", "@", "d", "o", ".", "c", "a">>
str_email_upper == <<"J", "o", "@", "D", "O", ".", "c", "a">>
str_email_other == <<"j", "o", "@", "a", "c", ".", "c", "a">>

Emails == {None, PyStr(<<>>), PyStr(str_email_upper), PyStr(str_email_other)}
Phones == {None, PyStr(<<>>), PyStr(str_phone_digits), PyStr(str_phone_other),
           PyStr(str_phone_no_digits)}

NrNames ==
    <<[name |-> "REJECTED NAME LTD.", state |-> "REJECTED"],
      [name |-> "ACME LTD.", state |-> NRNameStatus_APPROVED]>>

BothContacts == [phoneNumber |-> str_applicant_phone, emailAddress |-> str_applicant_email]
EmailOnly == [emailAddress |-> str_applicant_email]

NrJson(state, applicants) == [state |-> state, applicants |-> applicants, names |-> NrNames]

\* what the name-request registry answers
NrAnswers ==
    { HTTPError, EmptyDict,
      NrJson(NRStatus_APPROVED, BothContacts),
      NrJson(NRStatus_APPROVED, EmailOnly),
      NrJson(NRStatus_DRAFT, BothContacts),
      NrJson(NRStatus_CONSUMED, BothContacts),
      NrJson(NRStatus_CONDITIONAL, EmptyDict),
      [state |-> NRStatus_INPROGRESS, names |-> NrNames] }

\* what the payment service answers
PayAnswers ==
    { HTTPError, EmptyDict,
      [invoices |-> <<>>],
      [invoices |-> <<[statusCode |-> PyStr("COMPLETED")]>>],
      [invoices |-> <<[statusCode |-> PyStr("CREATED")], [statusCode |-> PyStr("COMPLETED")]>>] }

AffiliationData(org, identifier, certified_by, email_arg, phone_arg) ==
    [org_id |-> org, business_identifier |-> identifier,
     certified_by_name |-> certified_by, email |-> email_arg, phone |-> phone_arg]

validate_returns ==
    /\ affil.pc = "validating"
    /\ affil' = [affil EXCEPT !.pc = "validated",
                              !.error = validate_new_business_affiliation(
                                            affil.ctx, affil.affiliation_data,
                                            affil.nr_answer, affil.pay_answer)]
    /\ UNCHANGED <<memberships, membersJoin, kcGroups, last, procs, recon>>

InitValidate ==
    /\ \E ctx \in UserContexts, org_id \in OrgIds \cup {MissingOrgId}, email \in Emails,
          phone \in Phones, nr_answer \in NrAnswers, pay_answer \in PayAnswers :
          affil = [pc |-> "validating", ctx |-> ctx,
                   affiliation_data |-> AffiliationData(org_id, "NR 1", "None", email, phone),
                   nr_answer |-> nr_answer, pay_answer |-> pay_answer, error |-> "not run"]
    /\ memberships = <<>>
    /\ membersJoin = Statuses
    /\ kcGroups = {}
    /\ last = NoCall
    /\ procs = NoProcs
    /\ recon = NoRecon

NextValidate == validate_returns

SpecValidate == InitValidate /\ [][NextValidate]_vars

----------------------------------------------------------------------------
(* The calls on the entity and affiliation tables, one call per step *)

StaffContext == [roles |-> {Role_STAFF}, current_user |-> "staff1"]

\* the callers, passcodes and registry answers of the calls on the tables
TableContexts == {PublicCaller, StaffContext}
TablePassCodes == {None, PyStr(str_1234), PyStr(str_do_JO_spaced)}
TablePartiesAnswers == {HTTPError, Parties_Person}
TableContacts == {<<None, None>>, <<PyStr(str_email_upper), None>>,
                  <<PyStr(str_email_upper), PyStr(str_phone_other)>>}
TableNrAnswers == {HTTPError, EmptyDict, NrJson(NRStatus_APPROVED, BothContacts),
                   NrJson(NRStatus_DRAFT, BothContacts), NrJson(NRStatus_CONSUMED, BothContacts),
                   NrJson(NRStatus_CONDITIONAL, EmptyDict)}
TablePayAnswers == {[invoices |-> <<>>], [invoices |-> <<[statusCode |-> PyStr("COMPLETED")]>>]}
BusinessIdentifierArgs == {"BC1", "FM1", "NR 1", "XX9"}
CertifiedByNames == {"None", "Jo Do"}

\* org_id and skip_membership_check of create_affiliation
OrgArgs == {<<org_id, FALSE>> : org_id \in OrgIds \cup {MissingOrgId}} \cup {<<1, TRUE>>}

CurrentTables == Tables(affil.entities, affil.affiliations)

\* the record of a call: its inputs, the tables before it, and what it did
AffiliationCall(op, ctx, args, out) ==
    [op |-> op, ctx |-> ctx, args |-> args, before |-> CurrentTables,
     result |-> out.result, effects |-> out.effects, authorized |-> out.authorized]

NoAffiliationCall ==
    [op |-> "none", ctx |-> PublicCaller, args |-> EmptyDict, before |-> Tables(<<>>, <<>>),
     result |-> "", effects |-> <<>>, authorized |-> NotReached]

\* the call ran to its end: the tables are as it left them
completed(op, ctx, args, out) ==
    [affil EXCEPT !.pc = "completed",
                  !.entities = out.tables.entities,
                  !.affiliations = out.tables.affiliations,
                  !.last = AffiliationCall(op, ctx, args, out)]

\* what is kept of a call once it returned: a create_new_business_affiliation call
\* that succeeded is remembered by its org and identifier
NoPrevious == [op |-> "none"]

Summary(call) ==
    IF call.op = "create_new_business_affiliation" /\ call.result = OK
    THEN [op |-> call.op, org_id |-> call.args.affiliation_data.org_id,
          business_identifier |-> call.args.affiliation_data.business_identifier]
    ELSE NoPrevious

create_affiliation_call(ctx, org_arg, business_identifier, pass_code, answer) ==
    /\ affil.pc = "tables"
    /\ affil' = completed("create_affiliation", ctx,
                          [org_id |-> org_arg[1], business_identifier |-> business_identifier,
                           pass_code |-> pass_code, skip_membership_check |-> org_arg[2]],
                          create_affiliation(CurrentTables, ctx, org_arg[1], business_identifier,
                                             pass_code, "None", org_arg[2], answer))
    /\ UNCHANGED <<memberships, membersJoin, kcGroups, last, procs, recon>>

\* the answers of the registries are part of the record when they were asked for
create_new_business_affiliation_call(ctx, org_id, certified_by_name, contact, nr_answer, pay_answer) ==
    LET affiliation_data == AffiliationData(org_id, "NR 1", certified_by_name, contact[1], contact[2])
        nr_asked == validate_new_business_affiliation(ctx, affiliation_data, HTTPError, HTTPError)
                        = DATA_NOT_FOUND /\ find_by_org_id(affiliation_data.org_id) # 0
        pay_asked == /\ nr_asked
                     /\ _get_and_validate_nr_details(nr_answer) = ""
                     /\ nr_state(nr_answer) = NRStatus_DRAFT
    IN  /\ affil.pc = "tables"
        /\ affil' = completed("create_new_business_affiliation", ctx,
                              [affiliation_data |-> affiliation_data,
                               nr_answer |-> IF nr_asked THEN nr_answer ELSE NotAsked,
                               pay_answer |-> IF pay_asked THEN pay_answer ELSE NotAsked],
                              create_new_business_affiliation(CurrentTables, ctx, affiliation_data,
                                                              nr_answer, pay_answer))
        /\ UNCHANGED <<memberships, membersJoin, kcGroups, last, procs, recon>>

DeleteAffiliationRequest(org, identifier, logs) ==
    [org_id |-> org, business_identifier |-> identifier,
     reset_passcode |-> FALSE, log_delete_draft |-> logs]

\* the caller is staff: the entity is looked up with skip_auth
delete_affiliation_call(org_id, business_identifier, logs) ==
    /\ affil.pc = "tables"
    /\ affil' = completed("delete_affiliation", StaffContext,
                          DeleteAffiliationRequest(org_id, business_identifier, logs),
                          delete_affiliation(CurrentTables,
                                             DeleteAffiliationRequest(org_id, business_identifier,
                                                                      logs)))
    /\ UNCHANGED <<memberships, membersJoin, kcGroups, last, procs, recon>>

\* the call returns (or its error reaches the caller): the next call can be served
affiliation_call_returns ==
    /\ affil.pc = "completed"
    /\ affil' = [affil EXCEPT !.pc = "tables", !.last = NoAffiliationCall,
                              !.previous = Summary(affil.last)]
    /\ UNCHANGED <<memberships, membersJoin, kcGroups, last, procs, recon>>

\* a corporation with or without a stored passcode and a sole proprietorship; no affiliation
InitAffil ==
    /\ \E pass_code \in {PyStr(<<>>), passcode_hash(str_1234)} :
          affil = [pc |-> "tables",
                   entities |-> <<EntityRow("BC1", "BC", "ACME INC.", pass_code, "None"),
                                  EntityRow("FM1", "SP", "", None, "None")>>,
                   affiliations |-> <<>>,
                   last |-> NoAffiliationCall,
                   previous |-> NoPrevious]
    /\ memberships = <<>>
    /\ membersJoin = Statuses
    /\ kcGroups = {}
    /\ last = NoCall
    /\ procs = NoProcs
    /\ recon = NoRecon

NextAffil ==
    \/ \E ctx \in TableContexts, org_arg \in OrgArgs,
          business_identifier \in BusinessIdentifierArgs, pass_code \in TablePassCodes,
          answer \in TablePartiesAnswers :
            create_affiliation_call(ctx, org_arg, business_identifier, pass_code, answer)
    \/ \E ctx \in TableContexts, org_id \in OrgIds \cup {MissingOrgId},
          certified_by_name \in CertifiedByNames, contact \in TableContacts,
          nr_answer \in TableNrAnswers, pay_answer \in TablePayAnswers :
            create_new_business_affiliation_call(ctx, org_id, certified_by_name, contact,
                                                 nr_answer, pay_answer)
    \/ \E org_id \in OrgIds \cup {MissingOrgId},
          business_identifier \in BusinessIdentifierArgs, logs \in BOOLEAN :
            delete_affiliation_call(org_id, business_identifier, logs)
    \/ affiliation_call_returns

SpecAffil == InitAffil /\ [][NextAffil]_vars

----------------------------------------------------------------------------
(* Vocabulary of the properties *)

\* the membership the last call was about
Target == <<last.user, last.org>>

\* the membership table as it was when the last call started
Pre == IF last.op = "none" THEN memberships ELSE [memberships EXCEPT ![Target] = last.before]

\* the ACTIVE memberships of the org with role ADMIN
ActiveOwners(ms, org) ==
    {k \in DOMAIN ms : OrgOf(k) = org /\ ms[k].status = ACTIVE /\ ms[k].membership_type_code = ADMIN}

\* every org has at least one ACTIVE ADMIN membership
OwnerInvariant(ms) == \A org \in {OrgOf(k) : k \in DOMAIN ms} : ActiveOwners(ms, org) # {}

\* the last call was about the only ACTIVE ADMIN membership of its org
TargetWasSoleOwner ==
    /\ last.op # "none"
    /\ ActiveOwners(Pre, last.org) = {Target}

SetsInactive(f) == f.membership_status = MembershipStatusObj(INACTIVE)
SetsActive(f) == f.membership_status = MembershipStatusObj(ACTIVE)
SetsRoleAdmin(f) == f.membership_type = MembershipTypeObj(ADMIN)
SetsOtherRole(f) == f.membership_type # None /\ f.membership_type # MembershipTypeObj(ADMIN)

\* the caller's role on the target org when the last call started
LastCallerRole == CallerRole(Pre, last.caller, last.org)

\* the last call left the membership table as it was
TableUnchanged == memberships = Pre

----------------------------------------------------------------------------
(* C1 .. C10: the membership state machine *)

\* C1: every call made in a state where every org has at least one ACTIVE ADMIN
\* membership leaves every org with at least one ACTIVE ADMIN membership (so no
\* sequence of calls started in such a state leaves it).
C1_EveryOrgKeepsAnActiveOwner ==
    OwnerInvariant(Pre) => OwnerInvariant(memberships)

\* C2: an update_membership request on the only ACTIVE ADMIN membership of an org
\* that sets status INACTIVE or a role other than ADMIN is rejected, with
\* CHANGE_ROLE_FAILED_ONLY_OWNER when no earlier guard rejects it, and leaves the
\* membership's role and status unchanged, whatever the other memberships are.
C2_SoleOwnerUpdateRejected ==
    (/\ last.op = "update_membership"
     /\ TargetWasSoleOwner
     /\ SetsInactive(last.fields) \/ SetsOtherRole(last.fields))
    => /\ last.result # OK
       /\ memberships[Target] = last.before
       /\ last.result \in {CHANGE_ROLE_FAILED_ONLY_OWNER, FORBIDDEN,
                           MAX_NUMBER_OF_STAFF_ORGS_LIMIT, BCEID_USERS_CANT_BE_OWNERS}
       /\ (/\ check_auth(Pre, last.caller, last.org, {COORDINATOR, ADMIN, STAFF})
           /\ ~SetsActive(last.fields))
          => last.result = CHANGE_ROLE_FAILED_ONLY_OWNER

\* C3: deactivate_membership on the only ACTIVE ADMIN membership of an org is
\* rejected and leaves that membership ACTIVE, whoever the caller is.
C3_DeactivateSoleOwnerRejected ==
    (last.op = "deactivate_membership" /\ TargetWasSoleOwner)
    => (last.result # OK /\ memberships[Target].status = ACTIVE)

\* the last call was a request by an ADMIN of the org to deactivate one of at
\* least two ACTIVE ADMIN memberships of the org
C4_Case ==
    /\ \/ last.op = "deactivate_membership"
       \/ last.op = "update_membership"
          /\ SetsInactive(last.fields) /\ last.fields.membership_type = None
    /\ LastCallerRole = ADMIN
    /\ Target \in ActiveOwners(Pre, last.org)
    /\ Cardinality(ActiveOwners(Pre, last.org)) >= 2

\* C4: in an org with two ACTIVE ADMIN memberships, a request by an ADMIN of the org
\* to deactivate one of them succeeds: that membership is INACTIVE afterwards and
\* every other membership is as before (the other owner is still ACTIVE ADMIN).
C4_DeactivateOneOfTwoOwners ==
    C4_Case =>
        /\ last.result = OK
        /\ memberships[Target] = [membership_type_code |-> ADMIN, status |-> INACTIVE]
        /\ \A k \in DOMAIN memberships \ {Target} : memberships[k] = Pre[k]
        /\ ActiveOwners(memberships, last.org) = ActiveOwners(Pre, last.org) \ {Target}

C4_Witness ==
    /\ C4_Case
    /\ last.op = "update_membership"
    /\ last.caller # last.user
    /\ last.result = OK

\* the user of the last call was ACTIVE in a staff-tier org other than the target
ActiveInOtherStaffOrg ==
    \E k \in DOMAIN Pre :
        /\ UserOf(k) = last.user /\ k # Target
        /\ Pre[k].status = ACTIVE
        /\ org_type_code[OrgOf(k)] \in StaffOrgTypes

\* C5: no user is ever ACTIVE in two staff-tier orgs, and an update that sets status
\* ACTIVE for a user who is ACTIVE in another staff-tier org is rejected and changes
\* nothing; the error is MAX_NUMBER_OF_STAFF_ORGS_LIMIT once the caller is authorized.
C5_StaffOrgUniqueness ==
    /\ StaffUnique(memberships)
    /\ (last.op = "update_membership" /\ SetsActive(last.fields) /\ ActiveInOtherStaffOrg)
       => /\ last.result \in {MAX_NUMBER_OF_STAFF_ORGS_LIMIT, FORBIDDEN}
          /\ TableUnchanged
          /\ check_auth(Pre, last.caller, last.org, {COORDINATOR, ADMIN, STAFF})
             => last.result = MAX_NUMBER_OF_STAFF_ORGS_LIMIT

C5_Witness ==
    /\ last.op = "update_membership"
    /\ SetsActive(last.fields)
    /\ ActiveInOtherStaffOrg
    /\ org_type_code[last.org] \in StaffOrgTypes
    /\ last.result = MAX_NUMBER_OF_STAFF_ORGS_LIMIT

\* C6: an update_membership request that promotes a membership to ADMIN (sets the
\* role ADMIN on a membership whose role is COORDINATOR or USER) succeeds only when
\* the caller is an ADMIN of the org or staff; a COORDINATOR's request is rejected
\* and leaves the target's role as it was.
C6_OnlyOwnerOrStaffPromotes ==
    (/\ last.op = "update_membership"
     /\ SetsRoleAdmin(last.fields)
     /\ last.before.membership_type_code # ADMIN)
    => /\ last.result = OK => LastCallerRole \in {ADMIN, STAFF}
       /\ LastCallerRole = COORDINATOR
          => (last.result # OK
              /\ memberships[Target].membership_type_code = last.before.membership_type_code)

\* C7: update_membership never makes a BCEID user's membership ADMIN: a request that
\* sets the role ADMIN on it is rejected and changes nothing, with
\* BCEID_USERS_CANT_BE_OWNERS once the caller is authorized and the staff-tier guard
\* passes; a BCEID user's membership that was not ADMIN before a call is not ADMIN after.
C7_BceidNeverOwner ==
    /\ (last.op = "update_membership" /\ login_source[last.user] = BCEID
            /\ SetsRoleAdmin(last.fields))
       => /\ last.result \in {BCEID_USERS_CANT_BE_OWNERS, FORBIDDEN, MAX_NUMBER_OF_STAFF_ORGS_LIMIT}
          /\ TableUnchanged
          /\ (/\ check_auth(Pre, last.caller, last.org, {COORDINATOR, ADMIN, STAFF})
              /\ ~_check_if_add_user_has_active_staff_org(Pre, last.fields.membership_status,
                                                          last.user))
             => last.result = BCEID_USERS_CANT_BE_OWNERS
    /\ \A k \in DOMAIN memberships :
          (login_source[UserOf(k)] = BCEID /\ Pre[k].membership_type_code # ADMIN)
          => memberships[k].membership_type_code # ADMIN

C7_Witness ==
    /\ last.op = "update_membership"
    /\ login_source[last.user] = BCEID
    /\ SetsRoleAdmin(last.fields)
    /\ last.before.membership_type_code # ADMIN
    /\ last.result = BCEID_USERS_CANT_BE_OWNERS

\* C8 as stated: on an update request a caller who holds none of the roles
\* COORDINATOR, ADMIN, STAFF on the target org is rejected, unless the membership is
\* the caller's own, in which case the authorization guard lets the update proceed.
C8_OwnMembershipExempt ==
    (last.op = "update_membership" /\ LastCallerRole \notin {COORDINATOR, ADMIN, STAFF})
    => IF last.caller = last.user THEN last.result # FORBIDDEN
       ELSE last.result = FORBIDDEN /\ TableUnchanged

\* C8 amended: on an update request a caller who holds none of the roles COORDINATOR,
\* ADMIN, STAFF on the target org is rejected, also when the membership is the
\* caller's own: find_membership_by_id lets the caller's own membership through, but
\* update_membership's own check_auth has no such exemption.
C8_RoleRequiredAlsoForOwnMembership ==
    (last.op = "update_membership" /\ LastCallerRole \notin {COORDINATOR, ADMIN, STAFF})
    => /\ last.result = FORBIDDEN
       /\ TableUnchanged
       /\ last.effects = <<>>
       /\ last.caller = last.user => find_membership_by_id(Pre, last.caller, Target)

C8_Witness ==
    /\ last.op = "update_membership"
    /\ last.caller = last.user
    /\ LastCallerRole = USER
    /\ last.fields # NoFields
    /\ last.result = FORBIDDEN

\* a request that demotes or deactivates its target
DemotesOrDeactivates(r) ==
    \/ r.op = "deactivate_membership"
    \/ r.op = "update_membership" /\ (SetsInactive(r.fields) \/ SetsOtherRole(r.fields))

\* C9: two concurrent calls whose guard checks and writes interleave, each demoting or
\* deactivating a different one of an org's two ACTIVE owners, do not both succeed.
C9_ConflictingUpdatesFailOneSide ==
    \A p, q \in DOMAIN procs :
        (/\ p # q
         /\ procs[p].pc = "done" /\ procs[q].pc = "done"
         /\ procs[p].overlapped \/ procs[q].overlapped
         /\ DemotesOrDeactivates(procs[p]) /\ DemotesOrDeactivates(procs[q])
         /\ <<procs[p].user, procs[p].org>> # <<procs[q].user, procs[q].org>>)
        => ~(procs[p].result = OK /\ procs[q].result = OK)

\* C10: when a guard of update_membership rejects the request, the membership table
\* and the identity provider's groups are unchanged and nothing is emitted; when the
\* request succeeds, the one persistence write comes before every side effect.
C10_RejectionHasNoEffect ==
    [][ last'.op = "update_membership" =>
          IF last'.result # OK
          THEN /\ memberships' = memberships
               /\ kcGroups' = kcGroups
               /\ last'.effects = <<>>
          ELSE /\ last'.effects[1] = "save"
               /\ \A i \in 2..Len(last'.effects) : last'.effects[i] # "save" ]_vars

C10_Witness ==
    /\ last.op = "update_membership"
    /\ last.result = CHANGE_ROLE_FAILED_ONLY_OWNER
    /\ TargetWasSoleOwner
    /\ SetsInactive(last.fields)
    /\ last.effects = <<>>

----------------------------------------------------------------------------
(* Vocabulary of the reconciliation properties *)

\* the first request has returned to its caller (with a list or an error)
FirstReturned == recon.pc = "returned"

\* ... with a list
ListReturned == recon.pc = "returned" /\ recon.first.error = ""

\* the places of the draft and business records of the gateway's answers
EntityRefs(key) ==
    UNION {{<<i, key, j>> : j \in DOMAIN recon.answers[i][key]} :
            i \in {k \in DOMAIN recon.answers : key \in DOMAIN recon.answers[k]}}
DraftRefs == EntityRefs("draftEntities")
BusinessRefs == EntityRefs("businessEntities")

\* a record as the gateway sent it, and as the first request left it
AsSent(ref) == Obj(recon.answers, ref)
AsLeft(ref) == Obj(recon.heap, ref)

\* the record is an element of the returned list
InResult(ref) == \E i \in DOMAIN recon.first.items : recon.first.items[i] = Ref(ref)

\* the record carries a name-request reference
HasNrNumber(rec) == "nrNumber" \in DOMAIN rec /\ rec.nrNumber # ""

\* the name-request payloads of an answer, in its order
NameRequestsOf(answer) ==
    IF answer.kind = "list" THEN answer.items
    ELSE IF "requests" \in DOMAIN answer THEN answer.requests
    ELSE <<>>

\* the places <<answer, position>> of the payloads that carry the number n
PayloadPlaces(n) ==
    UNION {{<<i, j>> : j \in {k \in DOMAIN NameRequestsOf(recon.answers[i]) :
                                /\ "nrNum" \in DOMAIN NameRequestsOf(recon.answers[i])[k]
                                /\ NameRequestsOf(recon.answers[i])[k].nrNum = n}} :
            i \in DOMAIN recon.answers}

\* the name-request numbers the answers hold a payload for
ResponseNrNums == {n \in NameRequestNumbers : PayloadPlaces(n) # {}}

\* the payload the answers hold for n: the last one in the order of the answers
ReferencedNameRequest(n) ==
    LET p == CHOOSE p \in PayloadPlaces(n) :
                \A q \in PayloadPlaces(n) : q[1] < p[1] \/ (q[1] = p[1] /\ q[2] <= p[2])
    IN  NameRequestsOf(recon.answers[p[1]])[p[2]]

\* the record refers to a name request of the answers whose state is CONSUMED
RefersToConsumed(rec) ==
    /\ HasNrNumber(rec)
    /\ rec.nrNumber \in ResponseNrNums
    /\ ReferencedNameRequest(rec.nrNumber).stateCd = NRStatus_CONSUMED

\* the numbers of the name requests that stand alone in the returned list
StandaloneNrNums ==
    {recon.first.items[i].value.nameRequest.nrNum :
        i \in {j \in DOMAIN recon.first.items : recon.first.items[j].kind = "value"}}

\* the numbers of the name requests whose payload was attached to a record
AttachedNrNums ==
    {AsLeft(ref).nameRequest.nrNum :
        ref \in {r \in DraftRefs \cup BusinessRefs : "nameRequest" \in DOMAIN AsLeft(r)}}

\* the creation timestamp of the affiliation base with the identifier (the bases hold each
\* identifier once), datetime.min when there is none
BaseCreated(identifier) ==
    IF \E i \in DOMAIN recon.affiliation_bases :
            recon.affiliation_bases[i].identifier = identifier
    THEN recon.affiliation_bases[
            CHOOSE i \in DOMAIN recon.affiliation_bases :
                recon.affiliation_bases[i].identifier = identifier].created
    ELSE datetime_min

\* the creation timestamp the i-th record of the returned list is ordered by
CreatedOfRecord(i) == BaseCreated(item_identifier(recon.first.records[i]))

\* the place of the i-th record of the returned list in the list as assembled
AssembledAt(i) ==
    CHOOSE k \in DOMAIN recon.first.assembled : recon.first.assembled[k] = recon.first.items[i]

\* 1 for a standalone name request, 2 for a draft, 3 for a business
AssemblyRank(item) ==
    IF item.kind = "value" THEN 1
    ELSE IF item.ref[2] = "draftEntities" THEN 2 ELSE 3

----------------------------------------------------------------------------
(* C11 .. C20: the affiliation reconciler *)

\* C11: whatever the gateway answered, the returned list holds no two records with the
\* same identifier (the identifier of a standalone name request being its nrNum).
C11_NoIdentifierTwice ==
    ListReturned =>
        \A i, j \in DOMAIN recon.first.records :
            i # j => item_identifier(recon.first.records[i])
                        # item_identifier(recon.first.records[j])

\* C12: in a returned list no name request whose payload was attached to a draft or
\* business record stands alone, and the name requests that stand alone are exactly
\* those of the answers that were attached to no record.
C12_LinkedNeverStandalone ==
    ListReturned =>
        /\ StandaloneNrNums \cap AttachedNrNums = {}
        /\ StandaloneNrNums = ResponseNrNums \ AttachedNrNums
        /\ \A i \in DOMAIN recon.first.items :
              recon.first.items[i].kind = "value"
              => recon.first.items[i].value.nameRequest
                    = ReferencedNameRequest(recon.first.items[i].value.nameRequest.nrNum)

C12_Witness ==
    /\ ListReturned
    /\ AttachedNrNums # {}
    /\ StandaloneNrNums # {}
    /\ \E ref \in BusinessRefs : "nameRequest" \in DOMAIN AsLeft(ref)

\* C13: when the answers hold a draft and a business with the same nrNumber and the
\* name request they refer to is CONSUMED, a list is returned, the draft is not in it
\* and the business is.
C13_ConsumedDraftDroppedBusinessKept ==
    FirstReturned =>
        \A d \in DraftRefs, b \in BusinessRefs :
            (/\ RefersToConsumed(AsSent(d))
             /\ HasNrNumber(AsSent(b))
             /\ AsSent(b).nrNumber = AsSent(d).nrNumber)
            => /\ recon.first.error = ""
               /\ ~InResult(d)
               /\ InResult(b)

\* C14: when a business record refers to a CONSUMED name request and no draft refers
\* to that name request (the business is the record that links to it), the request
\* ends without error and the business is in the returned list.
C14_BusinessOfConsumedKept ==
    FirstReturned =>
        \A b \in BusinessRefs :
            (/\ RefersToConsumed(AsSent(b))
             /\ \A d \in DraftRefs :
                   ~(HasNrNumber(AsSent(d)) /\ AsSent(d).nrNumber = AsSent(b).nrNumber))
            => /\ recon.first.error = ""
               /\ InResult(b)

\* C15: in a returned list, a draft whose nrNumber is the number of no name request of
\* the answers is absent when remove_stale_drafts is true and present when it is
\* false, and every business record of the answers is present.
C15_UnresolvedDraftPolicy ==
    ListReturned =>
        /\ \A d \in DraftRefs :
              (HasNrNumber(AsSent(d)) /\ AsSent(d).nrNumber \notin ResponseNrNums)
              => (InResult(d) <=> ~recon.remove_stale_drafts)
        /\ \A b \in BusinessRefs : InResult(b)

C15_Witness ==
    /\ ListReturned
    /\ recon.remove_stale_drafts
    /\ \E d \in DraftRefs :
          /\ HasNrNumber(AsSent(d)) /\ AsSent(d).nrNumber \notin ResponseNrNums
          /\ ~InResult(d)
    /\ \E b \in BusinessRefs :
          HasNrNumber(AsSent(b)) /\ AsSent(b).nrNumber \notin ResponseNrNums

\* C16 as stated: in a returned list, a draft without a name-request reference
\* (nrNumber absent or empty) is absent when remove_stale_drafts is true and present
\* when it is false.
C16_UnreferencedDraftPolicy ==
    ListReturned =>
        \A d \in DraftRefs :
            ~HasNrNumber(AsSent(d)) => (InResult(d) <=> ~recon.remove_stale_drafts)

\* C16 amended: in a returned list, a draft without a name-request reference (nrNumber
\* absent or empty) is present, unchanged, whether or not stale-draft removal is
\* requested: the stale-draft policy only looks at drafts that carry a reference.
C16_UnreferencedDraftKept ==
    ListReturned =>
        \A d \in DraftRefs :
            ~HasNrNumber(AsSent(d)) => (InResult(d) /\ AsLeft(d) = AsSent(d))

C16_Witness ==
    /\ ListReturned
    /\ recon.remove_stale_drafts
    /\ \E d, e \in DraftRefs :
          /\ "nrNumber" \notin DOMAIN AsSent(d) /\ InResult(d)
          /\ "nrNumber" \in DOMAIN AsSent(e) /\ AsSent(e).nrNumber = "" /\ InResult(e)

\* C17: in a returned list, every draft and business record whose nrNumber is the
\* number of a name request of the answers carries that name request's payload, also
\* when several records refer to the same name request.
C17_EveryReferrerCarriesPayload ==
    ListReturned =>
        \A ref \in DraftRefs \cup BusinessRefs :
            (/\ HasNrNumber(AsSent(ref))
             /\ AsSent(ref).nrNumber \in ResponseNrNums
             /\ InResult(ref))
            => /\ "nameRequest" \in DOMAIN AsLeft(ref)
               /\ AsLeft(ref).nameRequest = ReferencedNameRequest(AsSent(ref).nrNumber)

\* C18: the returned list holds the records of the assembled list (standalone name
\* requests, then drafts, then businesses), ordered by descending creation timestamp
\* of the affiliation base with the record's identifier (datetime.min without one);
\* records with equal timestamps are in their assembly order.
C18_SortedByCreatedDescending ==
    ListReturned =>
        /\ Len(recon.first.items) = Len(recon.first.assembled)
        /\ \A k \in DOMAIN recon.first.assembled :
              \E i \in DOMAIN recon.first.items :
                  recon.first.items[i] = recon.first.assembled[k]
        /\ \A k, l \in DOMAIN recon.first.assembled :
              k < l => AssemblyRank(recon.first.assembled[k])
                          <= AssemblyRank(recon.first.assembled[l])
        /\ \A i, j \in DOMAIN recon.first.items :
              i < j => \/ CreatedOfRecord(i) > CreatedOfRecord(j)
                       \/ (CreatedOfRecord(i) = CreatedOfRecord(j)
                           /\ AssembledAt(i) < AssembledAt(j))

C18_Witness ==
    /\ ListReturned
    /\ Len(recon.first.items) >= 4
    /\ recon.first.items # recon.first.assembled
    /\ \E i, j \in DOMAIN recon.first.items :
          /\ i < j /\ CreatedOfRecord(i) = CreatedOfRecord(j)
          /\ CreatedOfRecord(i) # datetime_min
    /\ \E i, j \in DOMAIN recon.first.items :
          i < j /\ AssembledAt(i) > AssembledAt(j)

\* C19: the request repeated with the same bases, the same search object and the same
\* response objects (as the first request left them) ends like the first: the same
\* error, or the same records in the same order and the same hasMore.
C19_RepeatedRequestSameResult ==
    recon.pc = "repeated" =>
        /\ recon.second.error = recon.first.error
        /\ recon.second.records = recon.first.records
        /\ recon.second.has_more = recon.first.has_more

C19_Witness ==
    /\ recon.pc = "repeated"
    /\ recon.first.error = ""
    /\ recon.search_details.page = 1
    /\ recon.heap # recon.answers
    /\ \E i \in DOMAIN recon.second.records :
          /\ "draftType" \in DOMAIN recon.second.records[i]
          /\ recon.second.records[i].draftType = CorpType_ATMP
    /\ \E d \in DraftRefs : RefersToConsumed(AsSent(d))
    /\ recon.second.has_more

\* C20: when a call of the fan-out failed, the request fails with
\* ServiceUnavailableException and returns no list, whatever the other calls answered;
\* a list is returned only when every call completed.
C20_OneFailedCallFailsTheRequest ==
    FirstReturned =>
        /\ (\E i \in DOMAIN recon.answers : recon.answers[i] = Unavailable)
           => /\ recon.first.error = ServiceUnavailableException
              /\ recon.first.records = <<>>
              /\ recon.heap = recon.answers
        /\ recon.first.error = ""
           => /\ Len(recon.answers) = Len(recon.call_info)
              /\ \A i \in DOMAIN recon.answers : recon.answers[i] # Unavailable

C20_Witness ==
    /\ FirstReturned
    /\ Len(recon.answers) = 2
    /\ recon.answers[2] = Unavailable
    /\ recon.answers[1] # Unavailable
    /\ Len(NameRequestsOf(recon.answers[1])) > 0
    /\ recon.first.error = ServiceUnavailableException

----------------------------------------------------------------------------
(* Vocabulary of the side-effect properties *)

\* how many times the last call emitted e
Emitted(e) == Cardinality({i \in DOMAIN last.effects : last.effects[i] = e})

\* every e the last call emitted came after its persistence write
AfterSave(e) ==
    \A i \in DOMAIN last.effects :
        last.effects[i] = e => \E j \in 1..(i - 1) : last.effects[j] = "save"

\* the last call changed the status of its target to s
TransitionedTo(s) == last.before.status # s /\ memberships[Target].status = s

\* the user of the last call holds an ACTIVE membership other than the target
ActiveElsewhere ==
    \E k \in DOMAIN memberships :
        UserOf(k) = last.user /\ k # Target /\ memberships[k].status = ACTIVE

----------------------------------------------------------------------------
(* C25 .. C27: side effects and guard order of the membership state machine *)

\* C25: an update_membership call that transitions the status to ACTIVE emits exactly
\* one APPROVE_TEAM_MEMBER activity, one that transitions it to INACTIVE exactly one
\* REMOVE_TEAM_MEMBER activity and one TEAM_MEMBER_REMOVED event, each after the
\* write; an update that does not transition the status to ACTIVE or INACTIVE emits
\* none of the three.
C25_StatusTransitionEvents ==
    last.op = "update_membership" =>
        /\ Emitted("publish_activity:APPROVE_TEAM_MEMBER")
              = IF TransitionedTo(ACTIVE) THEN 1 ELSE 0
        /\ Emitted("publish_activity:REMOVE_TEAM_MEMBER")
              = IF TransitionedTo(INACTIVE) THEN 1 ELSE 0
        /\ Emitted("publish_team_member_event:TEAM_MEMBER_REMOVED")
              = IF TransitionedTo(INACTIVE) THEN 1 ELSE 0
        /\ AfterSave("publish_activity:APPROVE_TEAM_MEMBER")
        /\ AfterSave("publish_activity:REMOVE_TEAM_MEMBER")
        /\ AfterSave("publish_team_member_event:TEAM_MEMBER_REMOVED")

\* C26: after a membership change the account-holders join is issued when the
\* membership is ACTIVE and the user has no other ACTIVE membership, the leave is
\* issued when the membership is INACTIVE and the user has no ACTIVE membership at
\* all; no leave is issued while the user is ACTIVE elsewhere and no join is issued
\* for a user who has another ACTIVE membership.
C26_AccountHoldersGroupCalls ==
    (last.op # "none" /\ last.result = OK) =>
        /\ (memberships[Target].status = ACTIVE /\ ~ActiveElsewhere)
           => Emitted("join_account_holders_group") = 1
        /\ (memberships[Target].status = INACTIVE /\ ~ActiveElsewhere)
           => Emitted("remove_from_account_holders_group") = 1
        /\ ActiveElsewhere => Emitted("remove_from_account_holders_group") = 0
        /\ ActiveElsewhere => Emitted("join_account_holders_group") = 0

\* the guards of an update request that the last call violated, in the order of
\* section 4.4: 1 caller authorization, 2 staff-tier uniqueness, 3 BCEID-owner
\* prohibition, 4 coordinator-promotion restriction, 5 sole-owner protection
ViolatedGuards ==
    {g \in 1..5 :
        CASE g = 1 -> LastCallerRole \notin {COORDINATOR, ADMIN, STAFF}
          [] g = 2 -> /\ SetsActive(last.fields)
                      /\ \E k \in DOMAIN Pre :
                            /\ UserOf(k) = last.user /\ Pre[k].status = ACTIVE
                            /\ org_type_code[OrgOf(k)] \in StaffOrgTypes
          [] g = 3 -> login_source[last.user] = BCEID /\ SetsRoleAdmin(last.fields)
          [] g = 4 -> /\ last.before.membership_type_code = COORDINATOR
                      /\ SetsRoleAdmin(last.fields)
                      /\ LastCallerRole \notin {ADMIN, STAFF}
          [] g = 5 -> /\ TargetWasSoleOwner
                      /\ SetsInactive(last.fields) \/ SetsOtherRole(last.fields)}

\* the error each guard reports
GuardError ==
    <<FORBIDDEN, MAX_NUMBER_OF_STAFF_ORGS_LIMIT, BCEID_USERS_CANT_BE_OWNERS, FORBIDDEN,
      CHANGE_ROLE_FAILED_ONLY_OWNER>>

\* C27: when an update_membership request violates several guards at once, the error
\* reported is that of the first violated guard in the order caller authorization,
\* staff-tier uniqueness, BCEID-owner prohibition, coordinator-promotion restriction,
\* sole-owner protection, and nothing is written.
C27_FirstViolatedGuardReported ==
    (last.op = "update_membership" /\ Cardinality(ViolatedGuards) >= 2)
    => /\ last.result = GuardError[CHOOSE g \in ViolatedGuards : \A h \in ViolatedGuards : g <= h]
       /\ TableUnchanged
       /\ last.effects = <<>>

C27_Witness ==
    /\ last.op = "update_membership"
    /\ ViolatedGuards = {3, 5}
    /\ last.result = BCEID_USERS_CANT_BE_OWNERS

----------------------------------------------------------------------------
(* Vocabulary of the authorization properties *)

\* an is_authorized call ran to its end
AuthzReturned == affil.pc = "returned"

\* the caller holds a role that bypasses authorization
BypassRole ==
    \/ Role_SKIP_AFFILIATION_AUTH \in affil.ctx.roles
    \/ Role_STAFF \in affil.ctx.roles
    \/ affil.ctx.current_user \in SbcStaffUsers

IsFirm == affil.entity.corp_type \in {"SP", "GP"}

\* a passcode was supplied / the entity has a stored passcode
Supplied == affil.pass_code # None /\ affil.pass_code # PyStr(<<>>)
Stored == affil.entity.pass_code # None /\ affil.entity.pass_code # PyStr(<<>>)

\* is_authorized returned this value (and raised nothing)
AuthzValue(b) == affil.out.raised = "" /\ affil.out.value = b

\* the supplied passcodes that are the composed name of a party of the answer once
\* case and spacing are put aside
NamesAParty ==
    <<affil.pass_code.value, affil.out.lookup>>
        \in {<<str_do_JO_spaced, Parties_Person>>,
             <<str_do_JO_spaced, Parties_OrganizationSpaced>>,
             <<str_DO_JO_m, Parties_OrganizationAndInitial>>}

----------------------------------------------------------------------------
(* C21 .. C23: affiliation authorization *)

\* C21: for a caller with a bypass role is_authorized returns true for every entity
\* and passcode; otherwise, for an entity that is not SP or GP, it returns the result
\* of the stored-passcode comparison when a passcode is supplied, false when none is
\* supplied and a stored passcode exists, and true when neither exists.
C21_FirstMatchingRule ==
    AuthzReturned =>
        /\ BypassRole => AuthzValue(TRUE) /\ affil.lookups = 0
        /\ (~BypassRole /\ ~IsFirm) =>
              /\ affil.lookups = 0
              /\ Supplied => AuthzValue(validate_passcode(affil.pass_code, affil.entity.pass_code))
              /\ (~Supplied /\ Stored) => AuthzValue(FALSE)
              /\ (~Supplied /\ ~Stored) => AuthzValue(TRUE)

C21_Witness ==
    /\ AuthzReturned /\ ~BypassRole /\ ~IsFirm
    /\ ~Supplied /\ Stored
    /\ AuthzValue(FALSE)

\* C22: for a caller without a bypass role and an entity that is not SP or GP, a
\* non-empty supplied passcode against an empty stored passcode is unauthorized.
C22_EmptyStoredPasscodeNeverAuthorizes ==
    (AuthzReturned /\ ~BypassRole /\ ~IsFirm /\ Supplied /\ ~Stored) => AuthzValue(FALSE)

C22_Witness ==
    /\ AuthzReturned /\ ~BypassRole /\ ~IsFirm
    /\ affil.pass_code = PyStr(str_1234)
    /\ affil.entity.pass_code = PyStr(<<>>)
    /\ AuthzValue(FALSE)

\* C23: for an SP or GP entity and a caller without a bypass role, is_authorized with
\* a missing or empty passcode returns false without a registry party lookup; with
\* a passcode it makes the lookup and returns true iff the passcode is the composed
\* name of a registered party up to case and spacing, whatever the stored passcode is.
C23_FirmsAuthorizeByPartyName ==
    (AuthzReturned /\ ~BypassRole /\ IsFirm) =>
        IF ~Supplied THEN AuthzValue(FALSE) /\ affil.lookups = 0
        ELSE /\ affil.lookups = 1
             /\ affil.out.lookup # NotAsked
             /\ AuthzValue(TRUE) <=> NamesAParty
             /\ ~AuthzValue(TRUE) =>
                    \/ AuthzValue(FALSE)
                    \/ affil.out.lookup = HTTPError /\ affil.out.raised = DATA_NOT_FOUND

C23_Witness ==
    /\ AuthzReturned /\ ~BypassRole /\ IsFirm
    /\ affil.pass_code = PyStr(str_do_JO_spaced)
    /\ affil.entity.pass_code = passcode_hash(str_1234)
    /\ affil.out.lookup = Parties_OrganizationSpaced
    /\ AuthzValue(TRUE)


----------------------------------------------------------------------------
(* Vocabulary of the properties of the entity and affiliation tables *)

RECURSIVE bag_total(_, _)
\* the number of rows of a bag among the given ones
bag_total(bag, rows) ==
    IF rows = {} THEN 0
    ELSE LET r == CHOOSE x \in rows : TRUE
         IN  bag[r] + bag_total(bag, rows \ {r})

\* the number of affiliation rows of an (org_id, entity_id) pair
PairRows(t, org_id, entity_id) ==
    bag_total(t.affiliations, find_affiliation_by_org_and_entity_ids(t.affiliations, org_id, entity_id))

\* a call on the tables ran to its end
CallCompleted(op) == affil.pc = "completed" /\ affil.last.op = op

\* the call left the tables as they were and published nothing
NothingChanged == CurrentTables = affil.last.before /\ affil.last.effects = <<>>

\* the entity that the last call names, in the tables before the call (0: none)
NamedEntity ==
    find_by_business_identifier(affil.last.before.entities, affil.last.args.business_identifier)

\* the pair of the last create_affiliation call had an affiliation before the call
PairExisted ==
    /\ NamedEntity # 0
    /\ PairRows(affil.last.before, affil.last.args.org_id, NamedEntity) >= 1

\* is_authorized was reached and returned this
IsAuthorizedReturned(b) ==
    affil.last.authorized.raised = "" /\ affil.last.authorized.value = b

AtMostOnePerPair ==
    \A org_id \in OrgIds \cup {MissingOrgId}, entity_id \in DOMAIN affil.entities :
        PairRows(CurrentTables, org_id, entity_id) <= 1

\* C24 as stated: there is at most one affiliation for each (org_id, entity_id) pair;
\* create_affiliation for a pair that already has an affiliation fails with
\* DATA_ALREADY_EXISTS and adds nothing, and an unauthorized create_affiliation fails
\* with INVALID_USER_CREDENTIALS and adds nothing.
C24_ExistingPairAlwaysAlreadyExists ==
    /\ AtMostOnePerPair
    /\ (CallCompleted("create_affiliation") /\ PairExisted)
       => (affil.last.result = DATA_ALREADY_EXISTS /\ NothingChanged)
    /\ (CallCompleted("create_affiliation") /\ IsAuthorizedReturned(FALSE))
       => (affil.last.result = INVALID_USER_CREDENTIALS /\ NothingChanged)

\* C24 (amended): there is at most one affiliation for each (org_id, entity_id) pair;
\* authorization is checked before the existing affiliation is looked for, so
\* create_affiliation for a pair that already has an affiliation fails with
\* DATA_ALREADY_EXISTS when is_authorized returned True (and with the error of the
\* authorization otherwise) and adds nothing, and a create_affiliation for which
\* is_authorized returned False fails with INVALID_USER_CREDENTIALS and adds nothing.
C24_OnePerPairAuthorizationFirst ==
    /\ AtMostOnePerPair
    /\ (CallCompleted("create_affiliation") /\ PairExisted)
       => /\ NothingChanged
          /\ IsAuthorizedReturned(TRUE) => affil.last.result = DATA_ALREADY_EXISTS
          /\ IsAuthorizedReturned(FALSE) => affil.last.result = INVALID_USER_CREDENTIALS
          /\ affil.last.authorized.raised # "" => affil.last.result = affil.last.authorized.raised
    /\ (CallCompleted("create_affiliation") /\ IsAuthorizedReturned(FALSE))
       => (affil.last.result = INVALID_USER_CREDENTIALS /\ NothingChanged)

\* an authorized caller asks for the affiliation that its org already has
C24_Witness ==
    /\ CallCompleted("create_affiliation")
    /\ PairExisted
    /\ IsAuthorizedReturned(TRUE)
    /\ affil.last.ctx = PublicCaller
    /\ affil.last.result = DATA_ALREADY_EXISTS


\* the last create_new_business_affiliation call was rejected
NewBusinessRejected ==
    CallCompleted("create_new_business_affiliation") /\ affil.last.result # OK

\* C28: create_new_business_affiliation changes stored state only after every
\* validation has passed: a call that is rejected, for whichever reason, leaves the
\* entities and the affiliations as they were and publishes no activity; a call that
\* is accepted saves the affiliation.
C28_RejectionChangesNothing ==
    /\ NewBusinessRejected => NothingChanged
    /\ (CallCompleted("create_new_business_affiliation") /\ affil.last.result = OK)
       => \E i \in DOMAIN affil.last.effects : affil.last.effects[i] = "affiliation.save"

\* the last of the validations rejects a request for a name request that has no
\* entity yet: the contacts of a public caller do not match
C28_Witness ==
    /\ NewBusinessRejected
    /\ affil.last.result = NR_INVALID_CONTACT
    /\ affil.last.args.nr_answer # NotAsked
    /\ find_by_business_identifier(affil.last.before.entities,
                                   affil.last.args.affiliation_data.business_identifier) = 0
    /\ DOMAIN affil.last.before.affiliations # {}


----------------------------------------------------------------------------
(* Vocabulary of the properties of the validation *)

\* a validate_new_business_affiliation call ran to its end
Validated == affil.pc = "validated"

\* the caller is not staff: it holds no role that skips the authorization
NonStaffCaller == affil.ctx = PublicCaller

\* the field was supplied: neither None nor the empty string
SuppliedField(v) == v \notin {None, PyStr(<<>>)}

\* the applicant of the name request has a phone number
ApplicantHasPhone == "phoneNumber" \in DOMAIN affil.nr_answer.applicants

\* the supplied phone has the digits of the applicant's phone: "(250)51" and
\* "250-5 1" have the digits 25051, "-" has none, as an applicant without a phone
PhoneHasApplicantDigits ==
    \/ affil.affiliation_data.phone = PyStr(str_phone_digits) /\ ApplicantHasPhone
    \/ affil.affiliation_data.phone = PyStr(str_phone_no_digits) /\ ~ApplicantHasPhone

\* the supplied email is the applicant's "jo@do.ca" up to case
EmailIsApplicantEmail == affil.affiliation_data.email = PyStr(str_email_upper)

\* the call got as far as the contact check: it was rejected for the contacts, or not
\* at all, and a public caller supplied a field (or it was rejected up front)
ContactCheckReached ==
    /\ Validated
    /\ affil.error \in {"", NR_INVALID_CONTACT}
    /\ NonStaffCaller =>
          SuppliedField(affil.affiliation_data.phone) \/ SuppliedField(affil.affiliation_data.email)

\* C29: for a non-staff caller the contact check passes iff every supplied field
\* matches the applicant of the name request: a supplied phone has the digits of the
\* applicant's phone, a supplied email is the applicant's email up to case, and a
\* field that is not supplied counts as matching for that field only; for a staff
\* caller the check is skipped, so no request of staff is rejected for its contacts.
C29_ContactsMatchSuppliedFields ==
    /\ (ContactCheckReached /\ NonStaffCaller)
       => (affil.error = ""
           <=> /\ SuppliedField(affil.affiliation_data.phone) => PhoneHasApplicantDigits
               /\ SuppliedField(affil.affiliation_data.email) => EmailIsApplicantEmail)
    /\ (Validated /\ ~NonStaffCaller) => affil.error # NR_INVALID_CONTACT

\* a phone written differently from the applicant's passes, with no email supplied
C29_Witness ==
    /\ ContactCheckReached
    /\ NonStaffCaller
    /\ affil.affiliation_data.phone = PyStr(str_phone_digits)
    /\ ~SuppliedField(affil.affiliation_data.email)
    /\ affil.error = ""


\* the errors of validate_new_business_affiliation
ValidationErrors ==
    {NR_INVALID_CONTACT, DATA_NOT_FOUND, NR_NOT_FOUND, NR_INVALID_STATUS, NR_INVALID_APPLICANTS,
     NR_NOT_PAID, "HTTPError"}

\* the last call is a create_new_business_affiliation that passed validation and
\* follows a successful one with the same org and name-request identifier
SecondNewBusinessCall ==
    /\ CallCompleted("create_new_business_affiliation")
    /\ affil.last.result \notin ValidationErrors
    /\ affil.previous.op = "create_new_business_affiliation"
    /\ affil.previous.org_id = affil.last.args.affiliation_data.org_id
    /\ affil.previous.business_identifier = affil.last.args.affiliation_data.business_identifier

\* the entities that have the identifier of the last call
EntitiesOfIdentifier ==
    {i \in DOMAIN affil.entities :
        affil.entities[i].business_identifier = affil.last.args.affiliation_data.business_identifier}

\* C30: calling create_new_business_affiliation twice with the same org and
\* name-request identifier, both calls passing validation, leaves exactly one entity
\* for that identifier and exactly one affiliation for the (org, entity) pair: the
\* second call succeeds, saves no entity, adds no affiliation row and publishes no
\* CREATE_AFFILIATION activity.
C30_SecondCallReusesBoth ==
    SecondNewBusinessCall =>
        /\ affil.last.result = OK
        /\ Cardinality(EntitiesOfIdentifier) = 1
        /\ affil.entities = affil.last.before.entities
        /\ \A i \in EntitiesOfIdentifier :
              PairRows(CurrentTables, affil.last.args.affiliation_data.org_id, i) = 1
        /\ bag_total(affil.affiliations, DOMAIN affil.affiliations)
              = bag_total(affil.last.before.affiliations, DOMAIN affil.last.before.affiliations)
        /\ \A k \in DOMAIN affil.last.effects :
              affil.last.effects[k] \notin {"save_entity", "publish_activity:CREATE_AFFILIATION"}

\* the second call names another certifier than the affiliation has
C30_Witness ==
    /\ SecondNewBusinessCall
    /\ affil.last.result = OK
    /\ AffiliationModel(affil.last.args.affiliation_data.org_id, 3, "None")
          \in DOMAIN affil.last.before.affiliations
    /\ affil.last.args.affiliation_data.certified_by_name = "Jo Do"


----------------------------------------------------------------------------
(* C31 .. C34: sole-owner protection, staff-org limit, stale affiliations, groups *)

\* the guards before the sole-owner protection let the last update request pass
EarlierGuardsPass == ViolatedGuards \cap {1, 2, 3, 4} = {}

\* C31: update_membership rejects with CHANGE_ROLE_FAILED_ONLY_OWNER only when the
\* request would demote or deactivate the org's sole owner: an update of the sole
\* owner's membership that keeps the role ADMIN and does not set status INACTIVE
\* (re-assigning ADMIN, or only setting status ACTIVE) is accepted.
C31_SoleOwnerKeepingAdminAccepted ==
    /\ (last.op = "update_membership" /\ last.result = CHANGE_ROLE_FAILED_ONLY_OWNER)
       => (SetsInactive(last.fields) \/ SetsOtherRole(last.fields))
    /\ (last.op = "update_membership" /\ TargetWasSoleOwner /\ EarlierGuardsPass
            /\ ~SetsInactive(last.fields) /\ ~SetsOtherRole(last.fields))
       => last.result = OK


\* the ACTIVE memberships in staff-tier orgs that the user of the last call held
\* when the call started
ActiveStaffMemberships ==
    {k \in DOMAIN Pre :
        /\ UserOf(k) = last.user
        /\ Pre[k].status = ACTIVE
        /\ org_type_code[OrgOf(k)] \in StaffOrgTypes}

\* the caller of the last update request passed the authorization that precedes
\* the staff-org check
CallerAuthorized == LastCallerRole \in {COORDINATOR, ADMIN, STAFF}

\* C32: an update_membership request (of a caller who passes the authorization) that
\* sets status ACTIVE is rejected with MAX_NUMBER_OF_STAFF_ORGS_LIMIT whenever the
\* user holds any ACTIVE membership in a staff-tier org, also when the target org is
\* not a staff-tier org and also when the membership being updated is that same
\* ACTIVE staff-tier membership; a request that sets no status or a status other
\* than ACTIVE is never rejected with that error.
C32_StaffOrgLimitOnAnyActiveStaffMembership ==
    last.op = "update_membership" =>
        /\ (CallerAuthorized /\ SetsActive(last.fields) /\ ActiveStaffMemberships # {})
           => (last.result = MAX_NUMBER_OF_STAFF_ORGS_LIMIT /\ TableUnchanged)
        /\ last.result = MAX_NUMBER_OF_STAFF_ORGS_LIMIT
           => (SetsActive(last.fields) /\ ActiveStaffMemberships # {})

\* the membership being set ACTIVE is the user's only ACTIVE staff-tier membership
C32_Witness ==
    /\ last.op = "update_membership"
    /\ SetsActive(last.fields)
    /\ ActiveStaffMemberships = {Target}
    /\ last.result = MAX_NUMBER_OF_STAFF_ORGS_LIMIT

\* the user is ACTIVE in a staff-tier org and the target org is not a staff-tier org
C32_WitnessOtherOrg ==
    /\ last.op = "update_membership"
    /\ SetsActive(last.fields)
    /\ ActiveStaffMemberships # {}
    /\ org_type_code[last.org] \notin StaffOrgTypes
    /\ last.result = MAX_NUMBER_OF_STAFF_ORGS_LIMIT


----------------------------------------------------------------------------
(* Affiliation.fix_stale_affiliations *)

\* most fix_stale_affiliations calls in one run
MaxStaleFixes == 1

SystemContext == [roles |-> {Role_SYSTEM}, current_user |-> "None"]

\* affiliation.entity_id = to_entity.identifier; affiliation.save() for each of the rows
set_entity_id(affiliations, rows, to_id) ==
    LET kept == DOMAIN affiliations \ rows
        moved(r) == {m \in rows : [m EXCEPT !.entity_id = to_id] = r}
    IN  [r \in kept \cup {[m EXCEPT !.entity_id = to_id] : m \in rows} |->
            (IF r \in kept THEN affiliations[r] ELSE 0) + bag_total(affiliations, moved(r))]

\* lines 417-449
fix_stale_affiliations(t, ctx, org_id, entity_details) ==
    LET from_id == find_by_business_identifier(t.entities, entity_details.nrNumber)
        to_id == find_by_business_identifier(t.entities, entity_details.identifier)
        stale == {r \in find_affiliations_by_entity_id(t.affiliations, from_id) :
                     r.org_id # org_id}
    IN  IF ~user_from_context_is_system(ctx) THEN Done(OK, t, <<>>, NotReached)
        ELSE IF from_id # 0 /\ t.entities[from_id].corp_type = CorpType_NR /\ to_id # 0
             THEN Done(OK, Tables(t.entities, set_entity_id(t.affiliations, stale, to_id)),
                       [i \in 1..bag_total(t.affiliations, stale) |-> "affiliation.save"],
                       NotReached)
        ELSE Done(OK, t, <<>>, NotReached)

\* the filer reports a business for a name request: fix_stale_affiliations runs
fix_stale_affiliations_call(ctx, org_id, nr_number, identifier) ==
    /\ affil.pc = "tables"
    /\ affil.fixes < MaxStaleFixes
    /\ affil' = [completed("fix_stale_affiliations", ctx,
                           [org_id |-> org_id, nrNumber |-> nr_number, identifier |-> identifier],
                           fix_stale_affiliations(CurrentTables, ctx, org_id,
                                                  [nrNumber |-> nr_number,
                                                   identifier |-> identifier]))
                 EXCEPT !.fixes = @ + 1]
    /\ UNCHANGED <<memberships, membersJoin, kcGroups, last, procs, recon>>

\* a corporation and a sole proprietorship, no affiliation, no stale affiliation fixed
InitStale ==
    /\ affil = [pc |-> "tables",
                entities |-> <<EntityRow("BC1", "BC", "ACME INC.", PyStr(<<>>), "None"),
                               EntityRow("FM1", "SP", "", None, "None")>>,
                affiliations |-> <<>>,
                last |-> NoAffiliationCall,
                previous |-> NoPrevious,
                fixes |-> 0]
    /\ memberships = <<>>
    /\ membersJoin = Statuses
    /\ kcGroups = {}
    /\ last = NoCall
    /\ procs = NoProcs
    /\ recon = NoRecon

NextStale ==
    \/ NextAffil
    \/ \E ctx \in {PublicCaller, SystemContext}, org_id \in OrgIds,
          nr_number \in {"NR 1", "BC1"}, identifier \in {"BC1", "NR 1", "XX9"} :
            fix_stale_affiliations_call(ctx, org_id, nr_number, identifier)

SpecStale == InitStale /\ [][NextStale]_vars

\* C33: fix_stale_affiliations preserves the uniqueness of (org_id, entity_id): after
\* it re-points the affiliations of the stale name-request entity to the business
\* entity, no org holds two affiliations with the same entity, including an org that
\* was already affiliated with the business entity.
C33_FixStaleKeepsPairsUnique ==
    (CallCompleted("fix_stale_affiliations")
        /\ \A org_id \in OrgIds, entity_id \in DOMAIN affil.last.before.entities :
              PairRows(affil.last.before, org_id, entity_id) <= 1)
    => AtMostOnePerPair


\* C34: in every state reachable by update_membership and deactivate_membership
\* calls (any status may be requested) from an initial state where group membership
\* matches memberships, a user who is in the account-holders group has at least one
\* ACTIVE membership.
C34_AccountHoldersHaveAnActiveMembership ==
    \A entry \in kcGroups :
        entry[2] = GROUP_ACCOUNT_HOLDERS
        => find_memberships_by_user_id_and_status(memberships, entry[1], ACTIVE) # {}


----------------------------------------------------------------------------
(* C35: the order of the gateway responses and of their records *)

\* the orders a list can be in
Orders(l) ==
    {[i \in DOMAIN l |-> l[p[i]]] :
        p \in {q \in [DOMAIN l -> DOMAIN l] : \A a, b \in DOMAIN l : q[a] = q[b] => a = b}}

\* a response with the records under key in any order
ReorderedEntities(response, key) ==
    IF isdict(response) /\ key \in DOMAIN response
    THEN {[response EXCEPT ![key] = l] : l \in Orders(response[key])}
    ELSE {response}

\* a response with its draft records and its business records in any order
ReorderedResponse(response) ==
    UNION {ReorderedEntities(r, "businessEntities") :
            r \in ReorderedEntities(response, "draftEntities")}

\* the answers of the gateway listed in any order, their records in any order
ReorderedAnswers ==
    UNION {{s \in [DOMAIN l -> UNION {ReorderedResponse(l[i]) : i \in DOMAIN l}] :
                \A i \in DOMAIN l : s[i] \in ReorderedResponse(l[i])} :
            l \in Orders(recon.answers)}

\* the identifiers of the records of a result (the nrNum of a standalone name request)
IdentifiersOf(out) ==
    {item_identifier(Content(out.heap, out.combined[i])) : i \in DOMAIN out.combined}

\* C35: the set of identifiers in the combined reconciliation result does not depend
\* on the order in which the gateway responses are listed nor on the order of the
\* draft and business records inside them.
C35_IdentifiersIndependentOfOrder ==
    ListReturned =>
        \A answers \in ReorderedAnswers :
            LET other == get_affiliation_details(recon.affiliation_bases,
                                                 recon.remove_stale_drafts, answers)
            IN  other.error = ""
                => IdentifiersOf(other)
                      = {item_identifier(recon.first.records[i]) : i \in DOMAIN recon.first.records}

====
